---------------------------- MODULE Spec2Model ----------------------------
(***************************************************************************)
(* Model of the production dashboard server (appdotbuilder/prod-dash):     *)
(* the CSV ingestion handler uploadCsv and the CRUD handlers that share    *)
(* its two tables, kpi_data and staff_members (Spec, FairSpec), uploadCsv  *)
(* calls that run at the same time (ConcSpec), and the upload form of the  *)
(* client with the calls it makes (ClientSpec).                            *)
(*                                                                         *)
(* Text is modelled as a sequence of one-character strings, so that trim,  *)
(* split, parseFloat and new Date are computed as the code computes them.  *)
(* A JavaScript number is the record [nan, neg, ip, mil]: sign, integer part*)
(* and thousandths; the inputs carry at most three fractional digits and   *)
(* at most nine integer digits, no exponent and no "Infinity".             *)
(***************************************************************************)
EXTENDS Integers, Sequences, FiniteSets, TLC

(* ------------------------------ bounds -------------------------------- *)

\* data rows of one uploaded file
MaxRows == 2

\* calls of uploadCsv in one behaviour, and calls of the other handlers
MaxUploads == 2
MaxOthers == 2

\* distinct inputs of uploadCsv in one behaviour (each may be uploaded again)
MaxFiles == 1

\* tables the uploads and the staff handlers of one behaviour work on
\* (createKpiData may be called in every behaviour)
MaxTables == 1

\* ticks of the wall clock
MaxClock == 1

\* uploadCsv calls that run at the same time
MaxProcs == 2

\* clicks on the upload button in one behaviour
MaxClicks == 2

(* ------------------------- JavaScript strings -------------------------- *)

\* String.prototype.trim strips white space and line terminators
IsSpace(c) == c \in {" ", "\t", "\n", "\r"}

\* the positions of s that hold no white space
Solid(s) == {k \in 1..Len(s) : ~IsSpace(s[k])}

Least(S) == CHOOSE k \in S : \A j \in S : k <= j
Greatest(S) == CHOOSE k \in S : \A j \in S : k >= j

TrimStart(s) ==
    IF Solid(s) = {} THEN <<>> ELSE SubSeq(s, Least(Solid(s)), Len(s))

TrimEnd(s) ==
    IF Solid(s) = {} THEN <<>> ELSE SubSeq(s, 1, Greatest(Solid(s)))

Trim(s) == TrimEnd(TrimStart(s))

\* String.prototype.split(sep) for a one-character separator: the pieces
\* between consecutive separators, so that the empty string splits into
\* one empty piece
Split(s, sep) ==
    LET at == {k \in 1..Len(s) : s[k] = sep}
        n == Cardinality(at)
        \* the position of the j-th separator, with the two ends of s
        pos(j) == IF j = 0 THEN 0
                  ELSE IF j = n + 1 THEN Len(s) + 1
                  ELSE CHOOSE k \in at : Cardinality({q \in at : q < k}) = j - 1
    IN  [j \in 1..(n + 1) |-> SubSeq(s, pos(j - 1) + 1, pos(j) - 1)]

\* a map that also drops the cells that are empty once trimmed
TrimAll_DropsEmpty(cells) ==
    LET trimmed == [j \in 1..Len(cells) |-> Trim(cells[j])]
        filled(c) == c # <<>>
    IN  SelectSeq(trimmed, filled)

\* Array.prototype.map(x => x.trim())
TrimAll(cells) == [j \in 1..Len(cells) |-> Trim(cells[j])]

\* Array.prototype.join
RECURSIVE Join(_, _)
Join(parts, sep) ==
    IF parts = <<>> THEN <<>>
    ELSE IF Len(parts) = 1 THEN parts[1]
    ELSE parts[1] \o sep \o Join(Tail(parts), sep)

(* ------------------------------ literals ------------------------------- *)

H_week_date == <<"w", "e", "e", "k", "_", "d", "a", "t", "e">>
H_efficiency == <<"e", "f", "f", "i", "c", "i", "e", "n", "c", "y">>
H_production_rate ==
    <<"p", "r", "o", "d", "u", "c", "t", "i", "o", "n", "_", "r", "a", "t", "e">>
H_defects_ppm == <<"d", "e", "f", "e", "c", "t", "s", "_", "p", "p", "m">>
H_name == <<"n", "a", "m", "e">>
H_position == <<"p", "o", "s", "i", "t", "i", "o", "n">>
H_department == <<"d", "e", "p", "a", "r", "t", "m", "e", "n", "t">>
H_status == <<"s", "t", "a", "t", "u", "s">>

\* the expectedHeaders arrays of uploadCsv
KpiExpectedHeaders == <<H_week_date, H_efficiency, H_production_rate, H_defects_ppm>>
StaffExpectedHeaders == <<H_name, H_position, H_department, H_status>>

\* z.enum(['active', 'on_vacation'])
S_active == <<"a", "c", "t", "i", "v", "e">>
S_on_vacation == <<"o", "n", "_", "v", "a", "c", "a", "t", "i", "o", "n">>

\* an enumeration that also takes the capitalised 'Active'
staffStatusEnum_AnyCase == {S_active, S_on_vacation, <<"A", "c", "t", "i", "v", "e">>}

staffStatusEnum == {S_active, S_on_vacation}

(* --------------------------- JavaScript numbers ------------------------ *)

Digits == {"0", "1", "2", "3", "4", "5", "6", "7", "8", "9"}

DigitVal(c) ==
    CASE c = "0" -> 0 [] c = "1" -> 1 [] c = "2" -> 2 [] c = "3" -> 3
      [] c = "4" -> 4 [] c = "5" -> 5 [] c = "6" -> 6 [] c = "7" -> 7
      [] c = "8" -> 8 [] c = "9" -> 9

NaN == [nan |-> TRUE, neg |-> FALSE, ip |-> 0, mil |-> 0]

\* the longest prefix of s made of digits
RECURSIVE DigitPrefix(_)
DigitPrefix(s) ==
    IF s # <<>> /\ Head(s) \in Digits
    THEN <<Head(s)>> \o DigitPrefix(Tail(s))
    ELSE <<>>

RECURSIVE DigitsValue(_, _)
DigitsValue(ds, acc) ==
    IF ds = <<>> THEN acc
    ELSE DigitsValue(Tail(ds), acc * 10 + DigitVal(Head(ds)))

\* the first three fractional digits as thousandths
Thousandths(ds) ==
    LET d(k) == IF Len(ds) >= k THEN DigitVal(ds[k]) ELSE 0
    IN  d(1) * 100 + d(2) * 10 + d(3)

\* parseFloat: skips leading white space, reads the longest prefix that is
\* a decimal literal and ignores whatever follows it; NaN when no digit
\* was read
parseFloat(text) ==
    LET s0 == TrimStart(text)
        signed == s0 # <<>> /\ Head(s0) \in {"-", "+"}
        neg == s0 # <<>> /\ Head(s0) = "-"
        s1 == IF signed THEN Tail(s0) ELSE s0
        ipd == DigitPrefix(s1)
        s2 == SubSeq(s1, Len(ipd) + 1, Len(s1))
        dot == s2 # <<>> /\ Head(s2) = "."
        fpd == IF dot THEN DigitPrefix(Tail(s2)) ELSE <<>>
    IN  IF ipd = <<>> /\ fpd = <<>> THEN NaN
        ELSE [nan |-> FALSE, neg |-> neg, ip |-> DigitsValue(ipd, 0),
              mil |-> Thousandths(fpd)]

IsZero(n) == n.ip = 0 /\ n.mil = 0

\* n >= 0 (minus zero included) and n <= 100
NonNegative(n) == ~n.neg \/ IsZero(n)
AtMost100(n) == (n.neg /\ ~IsZero(n)) \/ n.ip < 100 \/ (n.ip = 100 /\ n.mil = 0)

(* ---------------------------- JavaScript dates ------------------------- *)

\* a Date whose time value is NaN
InvalidDate == [valid |-> FALSE, ymd |-> 0]

\* days of month m of year y
DaysIn(y, m) ==
    IF m = 2
    THEN (IF (y % 4 = 0 /\ y % 100 # 0) \/ y % 400 = 0 THEN 29 ELSE 28)
    ELSE IF m \in {4, 6, 9, 11} THEN 30 ELSE 31

\* new Date(text) for the ISO date-only forms YYYY, YYYY-MM and YYYY-MM-DD
\* (UTC midnight; a missing month or day is 01; a day past the end of its
\* month, up to 31, rolls into the next month); any other text of the inputs
\* used here is no date. The time value of a date is the number yyyymmdd,
\* which orders as the instants do.
NewDate(text) ==
    LET parts == Split(text, "-")
        AllDigits(p, n) == Len(p) = n /\ \A k \in 1..n : p[k] \in Digits
        y == DigitsValue(parts[1], 0)
        m == IF Len(parts) >= 2 THEN DigitsValue(parts[2], 0) ELSE 1
        d == IF Len(parts) >= 3 THEN DigitsValue(parts[3], 0) ELSE 1
    IN  IF /\ Len(parts) \in 1..3
           /\ AllDigits(parts[1], 4)
           /\ (Len(parts) >= 2 => AllDigits(parts[2], 2))
           /\ (Len(parts) >= 3 => AllDigits(parts[3], 2))
           /\ m \in 1..12
           /\ d \in 1..31
        THEN [valid |-> TRUE,
              ymd |-> IF d <= DaysIn(y, m) THEN y * 10000 + m * 100 + d
                      ELSE IF m = 12 THEN (y + 1) * 10000 + 100 + (d - DaysIn(y, m))
                      ELSE y * 10000 + (m + 1) * 100 + (d - DaysIn(y, m))]
        ELSE InvalidDate

(* ------------------------------- schemas ------------------------------- *)

\* csvKpiRowSchema / csvStaffRowSchema: four z.string() fields, and
\* z.string() accepts every string, the empty one included
csvRowSchemaOk(csvRow) == \A j \in 1..Len(csvRow) : Len(csvRow[j]) >= 0

\* one zod issue
Issue(path, message) == [path |-> path, message |-> message]

\* z.number(): NaN is no number; then the bounds
NumberIssues(path, n, max100) ==
    IF n.nan THEN <<Issue(path, "Expected number, received nan")>>
    ELSE (IF ~NonNegative(n)
          THEN <<Issue(path, "Number must be greater than or equal to 0")>>
          ELSE <<>>)
      \o (IF max100 /\ ~AtMost100(n)
          THEN <<Issue(path, "Number must be less than or equal to 100")>>
          ELSE <<>>)

\* a validation that stops at the first field that fails
createKpiDataInputIssues_FirstOnly(t) ==
    IF ~t.week_date.valid THEN <<Issue("week_date", "Invalid date")>>
    ELSE IF NumberIssues("efficiency", t.efficiency, TRUE) # <<>>
    THEN NumberIssues("efficiency", t.efficiency, TRUE)
    ELSE IF NumberIssues("production_rate", t.production_rate, FALSE) # <<>>
    THEN NumberIssues("production_rate", t.production_rate, FALSE)
    ELSE NumberIssues("defects_ppm", t.defects_ppm, FALSE)

\* createKpiDataInputSchema.safeParse(t).error.errors, in field order
createKpiDataInputIssues(t) ==
       (IF ~t.week_date.valid
        THEN <<Issue("week_date", "Invalid date")>> ELSE <<>>)
    \o NumberIssues("efficiency", t.efficiency, TRUE)
    \o NumberIssues("production_rate", t.production_rate, FALSE)
    \o NumberIssues("defects_ppm", t.defects_ppm, FALSE)

\* a z.string() without min(1): every string passes
StringIssues_None(path, str) == <<>>

\* z.string().min(1)
StringIssues(path, str) ==
    IF Len(str) < 1
    THEN <<Issue(path, "String must contain at least 1 character(s)")>>
    ELSE <<>>

\* createStaffMemberInputSchema.safeParse(t).error.errors, in field order
createStaffMemberInputIssues(t) ==
       StringIssues("name", t.name)
    \o StringIssues("position", t.position)
    \o StringIssues("department", t.department)
    \o (IF t.status \notin staffStatusEnum
        THEN <<Issue("status", "Invalid enum value")>> ELSE <<>>)

(* ---------------------------- column types ----------------------------- *)

EfficiencyPrecision == 5
RatePrecision == 10
NumericScale == 2

RECURSIVE Pow10(_)
Pow10(k) == IF k = 0 THEN 1 ELSE 10 * Pow10(k - 1)

Overflow == "numeric field overflow"

\* n.toString() read as numeric(precision, 2): the value rounded to two
\* decimals, half away from zero
Rounded(n) ==
    LET h == (n.mil + 5) \div 10
        ip == IF h = 100 THEN n.ip + 1 ELSE n.ip
        mil == IF h = 100 THEN 0 ELSE h * 10
    IN  [nan |-> FALSE, neg |-> n.neg /\ ~(ip = 0 /\ mil = 0), ip |-> ip, mil |-> mil]

\* the column refuses a rounded value of more than precision - 2 integer
\* digits
NumericOverflows(n, precision) == Rounded(n).ip >= Pow10(precision - NumericScale)

\* a column that cuts the third decimal off instead of rounding it
NumericColumn_Truncates(n, precision) == [n EXCEPT !.mil = (@ \div 10) * 10]

\* what a numeric(precision, 2) column stores for n
NumericColumn(n, precision) == Rounded(n)

\* the three numeric columns of kpi_data for the values of one record
KpiColumns(t) ==
    [efficiency |-> NumericColumn(t.efficiency, EfficiencyPrecision),
     production_rate |-> NumericColumn(t.production_rate, RatePrecision),
     defects_ppm |-> NumericColumn(t.defects_ppm, RatePrecision)]

KpiColumnsOverflow(t) ==
    \/ NumericOverflows(t.efficiency, EfficiencyPrecision)
    \/ NumericOverflows(t.production_rate, RatePrecision)
    \/ NumericOverflows(t.defects_ppm, RatePrecision)

(* ------------------------------- inputs -------------------------------- *)

D_0101 == <<"2", "0", "2", "4", "-", "0", "1", "-", "0", "1">>
D_01 == <<"2", "0", "2", "4", "-", "0", "1">>
D_0108 == <<"2", "0", "2", "4", "-", "0", "1", "-", "0", "8">>
T_abc == <<"a", "b", "c">>
T_Ann == <<"A", "n", "n">>
T_Bob == <<"B", "o", "b">>
T_Eng == <<"E", "n", "g">>
T_Mgr == <<"M", "g", "r">>
T_QA == <<"Q", "A">>
T_HR == <<"H", "R">>
T_Active == <<"A", "c", "t", "i", "v", "e">>

Comma == <<",">>
Newline == <<"\n">>

\* The lines the uploaded texts are made of, by name. A text is held in
\* the state as the sequence of the names of its lines.
LineText ==
    [ \* header lines: the two expected ones, one with white space around
      \* its cells, one a column short, one with two columns exchanged
      KH |-> Join(KpiExpectedHeaders, Comma),
      SH |-> Join(StaffExpectedHeaders, Comma),
      KHspaced |-> Join(<<<<" ">> \o H_week_date, H_efficiency \o <<" ">>,
                         H_production_rate, H_defects_ppm>>, Comma),
      KHshort |-> Join(<<H_week_date, H_efficiency, H_production_rate>>, Comma),
      SHswapped |-> Join(<<H_name, H_position, H_status, H_department>>, Comma),
      \* KPI rows: two for the same week (the first with the least
      \* efficiency, the second dated by its month, with a third decimal
      \* and white space), one for another week with the greatest
      K1 |-> Join(<<D_0101, <<"0">>,
                    <<"1", "5", "0", ".", "7", "5">>, <<"2", "5", ".", "5">>>>, Comma),
      K2 |-> Join(<<D_01, <<" ", "9", "5", ".", "5", "5", "5", " ">>,
                    <<"1", "8", "0", ".", "2", "5">>, <<"1", "5", ".", "2">>>>, Comma),
      K3 |-> Join(<<D_0108, <<"1", "0", "0">>, <<"0">>, <<"0">>>>, Comma),
      \* a production rate too large for its column
      Kbig |-> Join(<<D_0101, <<"9", "0", ".", "2">>,
                      <<"1", "0", "0", "0", "0", "0", "0", "0", "0">>,
                      <<"1", "8", ".", "3">>>>, Comma),
      \* no date, efficiency above 100, negative rate, no number
      Kbad |-> Join(<<T_abc, <<"1", "0", "5", ".", "5">>, <<"-", "1", "0">>, T_abc>>,
                    Comma),
      \* an efficiency with letters after its digits; an empty efficiency
      Kjunk |-> Join(<<D_0108, <<"1", "2", "a", "b", "c">>,
                       <<"1", "5", "0", ".", "7", "5">>, <<"2", "5", ".", "5">>>>, Comma),
      Kempty |-> Join(<<D_0108, <<>>,
                        <<"1", "5", "0", ".", "7", "5">>, <<"2", "5", ".", "5">>>>, Comma),
      \* staff rows: two for Ann of QA, one for Ann of HR
      S1 |-> Join(<<T_Ann, T_Eng, T_QA, S_active>>, Comma),
      S2 |-> Join(<<T_Ann, T_Mgr, <<" ">> \o T_QA \o <<" ">>, S_on_vacation>>, Comma),
      S3 |-> Join(<<T_Ann, T_Eng, T_HR, S_active>>, Comma),
      \* an empty name; a status in the wrong case and an empty position
      Sbad |-> Join(<<<<>>, T_Eng, T_QA, S_active>>, Comma),
      Sstatus |-> Join(<<T_Bob, <<>>, T_HR, T_Active>>, Comma),
      \* three cells; an empty line; a line of white space
      Short |-> Join(<<T_Bob, T_Mgr, T_HR>>, Comma),
      Empty |-> <<>>,
      Blank |-> <<" ", " ">>,
      \* two lines of another format
      H12 |-> <<"h", "1", ",", "h", "2">>,
      V12 |-> <<"v", "1", ",", "v", "2">> ]

\* input.data: the text named by a sequence of line names
Text(data) == Join([k \in 1..Len(data) |-> LineText[data[k]]], Newline)

\* the rows that are combined into files of up to MaxRows rows
KpiRowNames == {"K1", "K2", "K3", "Kbig", "Kbad", "Empty"}
StaffRowNames == {"S1", "S2", "S3", "Sbad", "Sstatus", "Empty"}

\* all sequences of 1..n elements of S
SeqsUpTo(S, n) == UNION {[1..k -> S] : k \in 1..n}

\* the texts without a well-formed header and data rows: the empty text,
\* white space, a header alone or followed by a line break
OddData(header) == { <<>>, <<"Blank", "Blank">>, <<header>>, <<header, "Empty">> }

\* the inputs of uploadCsv: the router admits the types 'kpi' and 'staff'
\* only, a direct caller may pass any type
CsvUploadInputs ==
         {[type |-> "kpi", data |-> d] :
            d \in {<<"KH">> \o rows : rows \in SeqsUpTo(KpiRowNames, MaxRows)}
                  \cup OddData("KH")
                  \cup {<<"KHspaced", "K3">>, <<"KHshort", "Short">>, <<"SH", "S1">>,
                        <<"KH", "Short", "K3">>, <<"SH">>,
                        <<"KH", "Kjunk", "Kempty">>}}
    \cup {[type |-> "staff", data |-> d] :
            d \in {<<"SH">> \o rows : rows \in SeqsUpTo(StaffRowNames, MaxRows)}
                  \cup OddData("SH")
                  \cup {<<"SHswapped", "S1">>, <<"KH", "K1">>, <<"SH", "Short", "S3">>,
                        <<"KH">>}}
    \cup {[type |-> "invalid", data |-> d] :
            d \in OddData("KH") \cup {<<"H12", "V12">>, <<"KH", "K1">>}}

\* the texts as they come, not trimmed
TrimmedData_Raw == [d \in {input.data : input \in CsvUploadInputs} |-> Text(d)]

\* input.data.trim() and its split('\n'), tabulated over the inputs
TrimmedData == [d \in {input.data : input \in CsvUploadInputs} |-> Trim(Text(d))]
Lines == [d \in DOMAIN TrimmedData |-> Split(TrimmedData[d], "\n")]

\* row.split(',').map(v => v.trim()), tabulated over the lines of the inputs
Values ==
    [row \in UNION {{Lines[d][k] : k \in 1..Len(Lines[d])} : d \in DOMAIN Lines}
        |-> TrimAll(Split(row, ","))]

\* lines.slice(1) of an input
DataRows(input) == Tail(Lines[input.data])

(* -------------------------------- state -------------------------------- *)

VARIABLES
    kpi_data,        \* the rows of table kpi_data
    staff_members,   \* the rows of table staff_members
    kpiSeq,          \* last value of the serial kpi_data.id
    staffSeq,        \* last value of the serial staff_members.id
    now,             \* the wall clock (new Date(), defaultNow())
    calls,           \* handler calls made so far: of uploadCsv, of the others
    files,           \* the inputs uploaded so far
    tables,          \* the tables the calls so far worked on
    up,              \* the uploadCsv call in progress, or the last one
    ret,             \* what the last finished call returned or raised
    prev,            \* the call before that: its input and its outcome
    jobs,            \* the uploadCsv calls that run at the same time
    client           \* the upload form of the client and its handler runs

store == <<kpi_data, staff_members, kpiSeq, staffSeq>>
bounds == <<calls, files, tables>>
aside == <<jobs, client>>
vars == <<kpi_data, staff_members, kpiSeq, staffSeq, now, calls, files, tables,
          up, ret, prev, jobs, client>>

NoInput == [type |-> "", data |-> <<>>]

\* no uploadCsv call has been made since the last other call
IdleUp ==
    [pc |-> "idle", input |-> NoInput, i |-> 0,
     errors |-> <<>>, recordsProcessed |-> 0, outcomes |-> <<>>,
     selects |-> 0, kpi0 |-> {}, staff0 |-> {}]

NoRet == [op |-> "", status |-> "none", input |-> NoInput,
          success |-> FALSE, recordsProcessed |-> 0, errors |-> <<>>,
          record |-> <<>>, message |-> <<>>]

\* what a call returned
Returned(op, record) ==
    [NoRet EXCEPT !.op = op, !.status = "returned", !.success = TRUE,
                  !.record = <<record>>]

\* what a call threw
Raised(op, message) ==
    [NoRet EXCEPT !.op = op, !.status = "raised", !.message = message]

\* the uploadCsv calls that may run at the same time
Procs == 1..MaxProcs

\* a call that has not started: its place in the handler, its input, the
\* locals i, errors and recordsProcessed, what its last select returned,
\* and the success of its result
IdleJob ==
    [pc |-> "idle", input |-> NoInput, i |-> 0, errors |-> <<>>,
     recordsProcessed |-> 0, existingRecord |-> {}, success |-> FALSE]

\* the client as it is mounted: no file chosen, type 'kpi', not uploading,
\* no notification, no run of handleCsvUpload
IdleClient ==
    [csvFile |-> <<>>, csvType |-> "kpi", isUploading |-> FALSE,
     uploadStatus |-> "null", runs |-> <<>>, clicks |-> 0]

Init ==
    /\ kpi_data = {}
    /\ staff_members = {}
    /\ kpiSeq = 0
    /\ staffSeq = 0
    /\ now = 0
    /\ calls = [uploads |-> 0, others |-> 0]
    /\ files = {}
    /\ tables = {}
    /\ up = IdleUp
    /\ ret = NoRet
    /\ prev = NoRet
    /\ jobs = [p \in Procs |-> IdleJob]
    /\ client = IdleClient

\* time passes; the rows of one call are handled within one tick
Tick ==
    /\ now < MaxClock
    /\ up.pc # "rows"
    /\ now' = now + 1
    /\ UNCHANGED <<store, bounds, up, ret, prev, aside>>

\* a handler may be called: the calls of a behaviour are made one after
\* the other
CanCall == up.pc \in {"idle", "done"}

\* a call may work on the tables ts
CanTouch(ts) == Cardinality(tables \cup ts) <= MaxTables

(* ------------------------------ uploadCsv ------------------------------ *)

\* an entry of the errors list: the message template and its parameters
Err(kind, row) ==
    [kind |-> kind, row |-> row, expected |-> 0, got |-> 0,
     cell |-> <<>>, wanted |-> <<>>, text |-> "", issues |-> <<>>]

EmptyError == Err("CSV data is empty", 0)
HeadersOnlyError == Err("CSV contains only headers, no data rows", 0)
InvalidTypeError(type) ==
    [Err("Invalid type '{type}'. Must be 'kpi' or 'staff'", 0) EXCEPT !.text = type]
ColumnsError(rowIndex, n, m) ==
    [Err("Row {rowIndex}: Expected {N} columns, got {M}", rowIndex)
        EXCEPT !.expected = n, !.got = m]
FormatError(rowIndex) == Err("Row {rowIndex}: Invalid CSV format - {messages}", rowIndex)
StatusError(rowIndex, value) ==
    [Err("Row {rowIndex}: Invalid status '{value}'. Must be 'active' or 'on_vacation'",
         rowIndex) EXCEPT !.cell = value]
BusinessError(rowIndex, issues) ==
    [Err("Row {rowIndex}: {path message, ...}", rowIndex) EXCEPT !.issues = issues]
DatabaseError(rowIndex, message) ==
    [Err("Row {rowIndex}: Database error - {message}", rowIndex) EXCEPT !.text = message]

\* a validateHeaders that goes on after a mismatch and reports the last
validateHeaders_LastMismatch(actualHeaders, expectedHeaders) ==
    IF Len(actualHeaders) # Len(expectedHeaders)
    THEN [valid |-> FALSE,
          error |-> [Err("Invalid header count. Expected {N} columns: [...], got {M}: [...]", 0)
                        EXCEPT !.expected = Len(expectedHeaders),
                               !.got = Len(actualHeaders)]]
    ELSE LET bad == {j \in 1..Len(expectedHeaders) :
                        actualHeaders[j] # expectedHeaders[j]}
             last == CHOOSE j \in bad : \A k \in bad : j >= k
         IN  IF bad = {} THEN [valid |-> TRUE, error |-> Err("", 0)]
             ELSE [valid |-> FALSE,
                   error |-> [Err("Invalid header at position {i}. Expected '{e}', got '{a}'", 0)
                                 EXCEPT !.got = last,
                                        !.wanted = expectedHeaders[last],
                                        !.cell = actualHeaders[last]]]

\* validateHeaders: the count first, then the first name that differs
validateHeaders(actualHeaders, expectedHeaders) ==
    IF Len(actualHeaders) # Len(expectedHeaders)
    THEN [valid |-> FALSE,
          error |-> [Err("Invalid header count. Expected {N} columns: [...], got {M}: [...]", 0)
                        EXCEPT !.expected = Len(expectedHeaders),
                               !.got = Len(actualHeaders)]]
    ELSE LET bad == {j \in 1..Len(expectedHeaders) :
                        actualHeaders[j] # expectedHeaders[j]}
             first == CHOOSE j \in bad : \A k \in bad : j <= k
         IN  IF bad = {} THEN [valid |-> TRUE, error |-> Err("", 0)]
             ELSE [valid |-> FALSE,
                   error |-> [Err("Invalid header at position {i}. Expected '{e}', got '{a}'", 0)
                                 EXCEPT !.got = first,
                                        !.wanted = expectedHeaders[first],
                                        !.cell = actualHeaders[first]]]

\* the result object of uploadCsv
Result(input, success, recordsProcessed, errors) ==
    [NoRet EXCEPT !.op = "uploadCsv", !.status = "returned", !.input = input,
                  !.success = success, !.recordsProcessed = recordsProcessed,
                  !.errors = errors]

\* an early return of uploadCsv with one input-level error
Abort(input, error) ==
    /\ up' = [IdleUp EXCEPT !.pc = "done", !.input = input,
                            !.kpi0 = kpi_data, !.staff0 = staff_members]
    /\ ret' = Result(input, FALSE, 0, <<error>>)

ExpectedHeaders(type) ==
    IF type = "kpi" THEN KpiExpectedHeaders ELSE StaffExpectedHeaders

\* input-level checks that validate the header line before they count the
\* data rows
InputLevelErrors_HeadersFirst(input) ==
    LET headerValidation ==
            validateHeaders(Values[Lines[input.data][1]], ExpectedHeaders(input.type))
    IN  IF TrimmedData[input.data] = <<>> THEN <<EmptyError>>
        ELSE IF input.type \in {"kpi", "staff"} /\ ~headerValidation.valid
        THEN <<headerValidation.error>>
        ELSE IF Len(DataRows(input)) = 0 THEN <<HeadersOnlyError>>
        ELSE IF input.type \in {"kpi", "staff"} THEN <<>>
        ELSE <<InvalidTypeError(input.type)>>

\* input-level checks that look at the type before they look at the text
InputLevelErrors_TypeFirst(input) ==
    IF input.type \notin {"kpi", "staff"} THEN <<InvalidTypeError(input.type)>>
    ELSE IF TrimmedData[input.data] = <<>> THEN <<EmptyError>>
    ELSE IF Len(DataRows(input)) = 0 THEN <<HeadersOnlyError>>
    ELSE LET headerValidation ==
                 validateHeaders(Values[Lines[input.data][1]], ExpectedHeaders(input.type))
         IN  IF ~headerValidation.valid THEN <<headerValidation.error>> ELSE <<>>

\* the input-level checks of uploadCsv in their order: the errors list of
\* the early return, or the empty list when the row loop is entered
InputLevelErrors(input) ==
    LET trimmedData == TrimmedData[input.data]
        lines == Lines[input.data]
        headers == Values[lines[1]]
        dataRows == DataRows(input)
        headerValidation == validateHeaders(headers, ExpectedHeaders(input.type))
    IN  IF trimmedData = <<>> THEN <<EmptyError>>
        ELSE IF Len(lines) = 0 THEN <<EmptyError>>
        ELSE IF Len(dataRows) = 0 THEN <<HeadersOnlyError>>
        ELSE IF input.type \in {"kpi", "staff"}
        THEN IF ~headerValidation.valid THEN <<headerValidation.error>> ELSE <<>>
        ELSE <<InvalidTypeError(input.type)>>

\* uploadCsv up to its row loop
UploadStart(input) ==
    /\ CanCall
    /\ calls.uploads < MaxUploads
    /\ input \in files \/ Cardinality(files) < MaxFiles
    /\ CanTouch({input.type} \cap {"kpi", "staff"})
    /\ calls' = [calls EXCEPT !.uploads = @ + 1]
    /\ files' = files \cup {input}
    /\ tables' = tables \cup ({input.type} \cap {"kpi", "staff"})
    /\ prev' = ret
    /\ UNCHANGED <<store, now>>
    /\ IF InputLevelErrors(input) # <<>>
       THEN Abort(input, InputLevelErrors(input)[1])
       ELSE /\ up' = [IdleUp EXCEPT !.pc = "rows", !.input = input,
                                    !.kpi0 = kpi_data,
                                    !.staff0 = staff_members]
            /\ ret' = NoRet

\* an errors list that takes a new error at its head: unshift in the
\* place of push
RowFails_Prepends(error, outcome) ==
    /\ up' = [up EXCEPT !.i = @ + 1, !.errors = <<error>> \o @,
                        !.outcomes = Append(@, outcome)]
    /\ UNCHANGED <<store, now, bounds, ret, prev>>

\* a row loop that does not get past a row that fails: the row is tried
\* again and again, and nothing is recorded
RowFails_Stalls(error, outcome) == UNCHANGED <<store, now, bounds, up, ret, prev>>

\* a row loop that an error ends: break in the place of continue
RowFails_Stops(error, outcome) ==
    /\ up' = [up EXCEPT !.i = Len(DataRows(up.input)), !.errors = Append(@, error),
                        !.outcomes = Append(@, outcome)]
    /\ UNCHANGED <<store, now, bounds, ret, prev>>

\* the end of one iteration of a row loop that pushed an error
RowFails(error, outcome) ==
    /\ up' = [up EXCEPT !.i = @ + 1, !.errors = Append(@, error),
                        !.outcomes = Append(@, outcome)]
    /\ UNCHANGED <<store, now, bounds, ret, prev>>

\* a count of the records inserted: a row that updates is not counted
RowDone_CountsInserts(outcome) ==
    up' = [up EXCEPT !.i = @ + 1,
                     !.recordsProcessed = IF outcome = "inserted" THEN @ + 1 ELSE @,
                     !.outcomes = Append(@, outcome), !.selects = @ + 1]

\* the end of one iteration that reconciled its row: a select and a write
\* were made
RowDone(outcome) ==
    up' = [up EXCEPT !.i = @ + 1, !.recordsProcessed = @ + 1,
                     !.outcomes = Append(@, outcome), !.selects = @ + 1]

ConnectionLost == "connection terminated"

\* a row's try block without its catch: what the store threw reaches the
\* caller
StoreFails_Raises(rowIndex, message, outcome) ==
    /\ up' = [up EXCEPT !.pc = "done", !.outcomes = Append(@, outcome)]
    /\ ret' = Raised("uploadCsv", <<message>>)
    /\ UNCHANGED <<store, now, bounds, prev>>

\* the catch of a row's try block: a store call threw, the select or the
\* write after it
StoreFails(rowIndex, message, outcome) ==
    /\ up' = [up EXCEPT !.i = @ + 1,
                        !.errors = Append(@, DatabaseError(rowIndex, message)),
                        !.outcomes = Append(@, outcome), !.selects = @ + 1]
    /\ UNCHANGED <<store, now, bounds, ret, prev>>

\* rowIndex = i + 2: the line of the file, the header being line 1
RowIndex(i) == i + 2

\* the typed record of a KPI row: new Date and parseFloat of its cells
KpiTransform(values) ==
    [week_date |-> NewDate(values[1]),
     efficiency |-> parseFloat(values[2]),
     production_rate |-> parseFloat(values[3]),
     defects_ppm |-> parseFloat(values[4])]

\* KpiTransform tabulated over the lines of four cells of the inputs
KpiTransformed ==
    [values \in {Values[row] : row \in {r \in DOMAIN Values : Len(Values[r]) = 4}}
        |-> KpiTransform(values)]

\* a lookup that finds nothing: every row is inserted
KpiLookup_Never(week_date) == {}

\* select from kpi_data where week_date = the row's date
KpiLookup(week_date) == {r \in kpi_data : r.week_date = week_date.ymd}

\* update kpi_data set the three numeric columns where week_date = the
\* row's date
KpiUpdate(t) ==
    {IF r.week_date = t.week_date.ymd
     THEN [r EXCEPT !.efficiency = KpiColumns(t).efficiency,
                    !.production_rate = KpiColumns(t).production_rate,
                    !.defects_ppm = KpiColumns(t).defects_ppm]
     ELSE r : r \in kpi_data}

\* insert into kpi_data: id and created_at are the defaults of the table
KpiInsert(t) ==
    kpi_data \cup {[id |-> kpiSeq + 1,
                    week_date |-> t.week_date.ymd,
                    efficiency |-> KpiColumns(t).efficiency,
                    production_rate |-> KpiColumns(t).production_rate,
                    defects_ppm |-> KpiColumns(t).defects_ppm,
                    created_at |-> now]}

\* one iteration of the KPI row loop
UploadKpiRow ==
    /\ up.pc = "rows"
    /\ UNCHANGED aside
    /\ up.input.type = "kpi"
    /\ up.i < Len(DataRows(up.input))
    /\ LET rowIndex == RowIndex(up.i)
           row == DataRows(up.input)[up.i + 1]
           values == Values[row]
           transformedData == KpiTransformed[values]
           issues == createKpiDataInputIssues(transformedData)
           existingRecord == KpiLookup(transformedData.week_date)
       IN  IF Len(values) # Len(KpiExpectedHeaders)
           THEN RowFails(ColumnsError(rowIndex, Len(KpiExpectedHeaders), Len(values)),
                         "columns")
           ELSE IF ~csvRowSchemaOk(values)
           THEN RowFails(FormatError(rowIndex), "format")
           ELSE IF issues # <<>>
           THEN RowFails(BusinessError(rowIndex, issues), "business")
           ELSE \/ \* a store call fails: the connection is lost
                   StoreFails(rowIndex, ConnectionLost, "fault")
                \/ \* a store call fails: a value does not fit its column
                   /\ KpiColumnsOverflow(transformedData)
                   /\ StoreFails(rowIndex, Overflow, "overflow")
                \/ \* update the records of that week
                   /\ ~KpiColumnsOverflow(transformedData)
                   /\ existingRecord # {}
                   /\ kpi_data' = KpiUpdate(transformedData)
                   /\ RowDone("updated")
                   /\ UNCHANGED <<staff_members, kpiSeq, staffSeq, now, bounds, ret, prev>>
                \/ \* insert a new record
                   /\ ~KpiColumnsOverflow(transformedData)
                   /\ existingRecord = {}
                   /\ kpi_data' = KpiInsert(transformedData)
                   /\ kpiSeq' = kpiSeq + 1
                   /\ RowDone("inserted")
                   /\ UNCHANGED <<staff_members, staffSeq, now, bounds, ret, prev>>

\* the raw record of a staff row
StaffRow(values) ==
    [name |-> values[1], position |-> values[2],
     department |-> values[3], status |-> values[4]]

\* a lookup in the table as it was when the call started
StaffLookup_Stale(name) == {r \in up.staff0 : r.name = name}

\* select from staff_members where name = the row's name
StaffLookup(name) == {r \in staff_members : r.name = name}

\* a find that takes any record of that name, whatever its department
StaffFind_AnyDept(existingRecord, department) == existingRecord

\* existingRecord.find(record => record.department === department): the
\* records find may return. select states no order, so the first record
\* of that department is any of them.
StaffFind(existingRecord, department) ==
    {r \in existingRecord : r.department = department}

\* an update that leaves the status as it is
StaffUpdate_PositionOnly(id, t) ==
    {IF r.id = id
     THEN [r EXCEPT !.position = t.position, !.updated_at = now]
     ELSE r : r \in staff_members}

\* update staff_members set position, status, updated_at where id = id
StaffUpdate(id, t) ==
    {IF r.id = id
     THEN [r EXCEPT !.position = t.position, !.status = t.status, !.updated_at = now]
     ELSE r : r \in staff_members}

\* insert into staff_members: id and the two dates are the defaults
StaffInsert(t) ==
    staff_members \cup {[id |-> staffSeq + 1,
                         name |-> t.name,
                         position |-> t.position,
                         department |-> t.department,
                         status |-> t.status,
                         created_at |-> now,
                         updated_at |-> now]}

\* one iteration of the staff row loop
UploadStaffRow ==
    /\ up.pc = "rows"
    /\ UNCHANGED aside
    /\ up.input.type = "staff"
    /\ up.i < Len(DataRows(up.input))
    /\ LET rowIndex == RowIndex(up.i)
           row == DataRows(up.input)[up.i + 1]
           values == Values[row]
           csvRow == StaffRow(values)
           issues == createStaffMemberInputIssues(csvRow)
           existingRecord == StaffLookup(csvRow.name)
       IN  IF Len(values) # Len(StaffExpectedHeaders)
           THEN RowFails(ColumnsError(rowIndex, Len(StaffExpectedHeaders), Len(values)),
                         "columns")
           ELSE IF ~csvRowSchemaOk(values)
           THEN RowFails(FormatError(rowIndex), "format")
           ELSE IF csvRow.status \notin staffStatusEnum
           THEN RowFails(StatusError(rowIndex, csvRow.status), "status")
           ELSE IF issues # <<>>
           THEN RowFails(BusinessError(rowIndex, issues), "business")
           ELSE \/ \* a store call fails: the connection is lost
                   StoreFails(rowIndex, ConnectionLost, "fault")
                \/ \* update the record find returned
                   \E duplicateInSameDept \in StaffFind(existingRecord, csvRow.department) :
                       /\ staff_members' = StaffUpdate(duplicateInSameDept.id, csvRow)
                       /\ RowDone("updated")
                       /\ UNCHANGED <<kpi_data, kpiSeq, staffSeq, now, bounds, ret, prev>>
                \/ \* insert a new record
                   /\ StaffFind(existingRecord, csvRow.department) = {}
                   /\ staff_members' = StaffInsert(csvRow)
                   /\ staffSeq' = staffSeq + 1
                   /\ RowDone("inserted")
                   /\ UNCHANGED <<kpi_data, kpiSeq, now, bounds, ret, prev>>

\* success read off the count of reconciled rows
UploadSuccess_FromCount(errors) == up.recordsProcessed > 0

\* success = errors.length === 0
UploadSuccess(errors) == Len(errors) = 0

\* after the loop: the result
UploadReturn ==
    /\ up.pc = "rows"
    /\ up.i = Len(DataRows(up.input))
    /\ up' = [up EXCEPT !.pc = "done"]
    /\ ret' = Result(up.input, UploadSuccess(up.errors), up.recordsProcessed, up.errors)
    /\ UNCHANGED <<store, now, bounds, prev, aside>>

Upload == \E input \in CsvUploadInputs : UploadStart(input) /\ UNCHANGED aside

(* ----------------------- uploadCsv, concurrently ----------------------- *)

\* uploadCsv is an async function: a call gives the event loop back at each
\* await, that is at each store call, and the calls of other requests run
\* in between. The row loops are the same as above, cut at their awaits:
\* ConcRow runs from the head of the loop to the answer of the select,
\* ConcWrite from there to the answer of the update or insert.

\* the inputs of the calls that run at the same time
ConcUploadInputs ==
    {input \in CsvUploadInputs :
        input.data \in { <<"KH", "K1">>, <<"KH", "K2", "K3">>, <<"KH", "Kbad", "K1">>,
                         <<"KH", "Kbig">>, <<"KH">>,
                         <<"SH", "S1">>, <<"SH", "S2", "S3">>, <<"SH", "Sstatus", "S1">>,
                         <<"SHswapped", "S1">> }}

\* call p pushes an error for its row and goes on to the next row
JobRowFails(p, error) ==
    /\ jobs' = [jobs EXCEPT ![p].pc = "row", ![p].i = @ + 1,
                            ![p].errors = Append(@, error),
                            ![p].existingRecord = {}]
    /\ UNCHANGED store

\* call p has its select answered
JobSelected(p, existingRecord) ==
    /\ jobs' = [jobs EXCEPT ![p].pc = "write", ![p].existingRecord = existingRecord]
    /\ UNCHANGED store

\* call p has its write answered
JobRowDone(p) ==
    jobs' = [jobs EXCEPT ![p].pc = "row", ![p].i = @ + 1,
                         ![p].recordsProcessed = @ + 1,
                         ![p].existingRecord = {}]

\* uploadCsv up to its row loop
ConcStart(p, input) ==
    /\ jobs[p].pc = "idle"
    /\ jobs' = [jobs EXCEPT ![p] =
                  IF InputLevelErrors(input) # <<>>
                  THEN [IdleJob EXCEPT !.pc = "done", !.input = input,
                                       !.errors = <<InputLevelErrors(input)[1]>>]
                  ELSE [IdleJob EXCEPT !.pc = "row", !.input = input]]
    /\ UNCHANGED <<store, now, bounds, up, ret, prev, client>>

\* an iteration up to the answer of its select
ConcRow(p) ==
    /\ jobs[p].pc = "row"
    /\ jobs[p].i < Len(DataRows(jobs[p].input))
    /\ UNCHANGED <<now, bounds, up, ret, prev, client>>
    /\ LET type == jobs[p].input.type
           rowIndex == RowIndex(jobs[p].i)
           values == Values[DataRows(jobs[p].input)[jobs[p].i + 1]]
           transformedData == KpiTransformed[values]
           csvRow == StaffRow(values)
       IN  IF Len(values) # Len(ExpectedHeaders(type))
           THEN JobRowFails(p, ColumnsError(rowIndex, Len(ExpectedHeaders(type)),
                                            Len(values)))
           ELSE IF ~csvRowSchemaOk(values)
           THEN JobRowFails(p, FormatError(rowIndex))
           ELSE IF type = "staff" /\ csvRow.status \notin staffStatusEnum
           THEN JobRowFails(p, StatusError(rowIndex, csvRow.status))
           ELSE IF type = "kpi" /\ createKpiDataInputIssues(transformedData) # <<>>
           THEN JobRowFails(p, BusinessError(rowIndex,
                                             createKpiDataInputIssues(transformedData)))
           ELSE IF type = "staff" /\ createStaffMemberInputIssues(csvRow) # <<>>
           THEN JobRowFails(p, BusinessError(rowIndex,
                                             createStaffMemberInputIssues(csvRow)))
           ELSE \/ JobRowFails(p, DatabaseError(rowIndex, ConnectionLost))
                \/ JobSelected(p, IF type = "kpi"
                                  THEN KpiLookup(transformedData.week_date)
                                  ELSE StaffLookup(csvRow.name))

\* the rest of the iteration: the update or the insert, with what the
\* select returned
ConcWrite(p) ==
    /\ jobs[p].pc = "write"
    /\ UNCHANGED <<now, bounds, up, ret, prev, client>>
    /\ LET type == jobs[p].input.type
           rowIndex == RowIndex(jobs[p].i)
           values == Values[DataRows(jobs[p].input)[jobs[p].i + 1]]
           transformedData == KpiTransformed[values]
           csvRow == StaffRow(values)
           existingRecord == jobs[p].existingRecord
       IN  \/ JobRowFails(p, DatabaseError(rowIndex, ConnectionLost))
           \/ /\ type = "kpi"
              /\ KpiColumnsOverflow(transformedData)
              /\ JobRowFails(p, DatabaseError(rowIndex, Overflow))
           \/ /\ type = "kpi"
              /\ ~KpiColumnsOverflow(transformedData)
              /\ existingRecord # {}
              /\ kpi_data' = KpiUpdate(transformedData)
              /\ JobRowDone(p)
              /\ UNCHANGED <<staff_members, kpiSeq, staffSeq>>
           \/ /\ type = "kpi"
              /\ ~KpiColumnsOverflow(transformedData)
              /\ existingRecord = {}
              /\ kpi_data' = KpiInsert(transformedData)
              /\ kpiSeq' = kpiSeq + 1
              /\ JobRowDone(p)
              /\ UNCHANGED <<staff_members, staffSeq>>
           \/ /\ type = "staff"
              /\ \E duplicateInSameDept \in StaffFind(existingRecord, csvRow.department) :
                    /\ staff_members' = StaffUpdate(duplicateInSameDept.id, csvRow)
                    /\ JobRowDone(p)
                    /\ UNCHANGED <<kpi_data, kpiSeq, staffSeq>>
           \/ /\ type = "staff"
              /\ StaffFind(existingRecord, csvRow.department) = {}
              /\ staff_members' = StaffInsert(csvRow)
              /\ staffSeq' = staffSeq + 1
              /\ JobRowDone(p)
              /\ UNCHANGED <<kpi_data, kpiSeq>>

\* after the loop: the result
ConcReturn(p) ==
    /\ jobs[p].pc = "row"
    /\ jobs[p].i = Len(DataRows(jobs[p].input))
    /\ jobs' = [jobs EXCEPT ![p].pc = "done",
                            ![p].success = UploadSuccess(jobs[p].errors)]
    /\ UNCHANGED <<store, now, bounds, up, ret, prev, client>>

ConcUpload == \E p \in Procs : \E input \in ConcUploadInputs : ConcStart(p, input)
ConcSelect == \E p \in Procs : ConcRow(p)
ConcStore == \E p \in Procs : ConcWrite(p)
ConcResult == \E p \in Procs : ConcReturn(p)

ConcNext ==
    \/ ConcUpload
    \/ ConcSelect
    \/ ConcStore
    \/ ConcResult

\* calls of uploadCsv that run at the same time, on the empty tables
ConcSpec == Init /\ [][ConcNext]_vars

(* ---------------------------- other handlers --------------------------- *)

\* The store is taken to answer these handlers; what a lost connection does
\* is modelled where the code handles it, in the row loops of uploadCsv.

Num(ip, mil) == [nan |-> FALSE, neg |-> FALSE, ip |-> ip, mil |-> mil]

\* the inputs of createKpiData that pass createKpiDataInputSchema: two for
\* one week, the second with a third decimal, and one for another week
\* whose rate is too large for its column
CreateKpiDataInputs ==
    { [week_date |-> NewDate(D_0101), efficiency |-> Num(87, 670),
       production_rate |-> Num(150, 750), defects_ppm |-> Num(25, 500)],
      [week_date |-> NewDate(D_0101), efficiency |-> Num(100, 0),
       production_rate |-> Num(156, 789), defects_ppm |-> Num(0, 0)],
      [week_date |-> NewDate(D_0108), efficiency |-> Num(0, 0),
       production_rate |-> Num(100000000, 0), defects_ppm |-> Num(12, 345)] }

\* the inputs of createStaffMember that pass createStaffMemberInputSchema
CreateStaffMemberInputs ==
    { [name |-> T_Ann, position |-> T_Eng, department |-> T_QA, status |-> S_active],
      [name |-> T_Ann, position |-> T_Mgr, department |-> T_HR,
       status |-> S_on_vacation] }

\* the inputs of updateStaffMember that pass updateStaffMemberInputSchema:
\* has names the fields that are not undefined
UpdateStaffMemberInputs ==
    { [id |-> id, has |-> has, name |-> T_Ann, position |-> T_Mgr,
       department |-> T_HR, status |-> S_on_vacation] :
        id \in 1..(staffSeq + 1),
        has \in { {}, {"status"}, {"position", "status"}, {"name", "department"} } }

NotFound(id) == <<"Staff member with id {id} not found", id>>

\* a call of a handler other than uploadCsv, on table t, starts
BeginOther(t) ==
    /\ CanCall
    /\ calls.others < MaxOthers
    /\ CanTouch({t} \ {"kpi"})
    /\ calls' = [calls EXCEPT !.others = @ + 1]
    /\ tables' = tables \cup ({t} \ {"kpi"})
    /\ prev' = ret
    /\ up' = IdleUp
    /\ UNCHANGED <<now, files, aside>>

\* createKpiData: insert, whatever the table holds
CreateKpiData(input) ==
    /\ BeginOther("kpi")
    /\ \/ /\ KpiColumnsOverflow(input)
          /\ ret' = Raised("createKpiData", <<Overflow>>)
          /\ UNCHANGED store
       \/ /\ ~KpiColumnsOverflow(input)
          /\ LET kpiData == [id |-> kpiSeq + 1,
                             week_date |-> input.week_date.ymd,
                             efficiency |-> KpiColumns(input).efficiency,
                             production_rate |-> KpiColumns(input).production_rate,
                             defects_ppm |-> KpiColumns(input).defects_ppm,
                             created_at |-> now]
             IN  /\ kpi_data' = kpi_data \cup {kpiData}
                 /\ kpiSeq' = kpiSeq + 1
                 /\ ret' = Returned("createKpiData", kpiData)
          /\ UNCHANGED <<staff_members, staffSeq>>

\* createStaffMember: insert, whatever the table holds
CreateStaffMember(input) ==
    /\ BeginOther("staff")
    /\ LET member == [id |-> staffSeq + 1,
                      name |-> input.name,
                      position |-> input.position,
                      department |-> input.department,
                      status |-> input.status,
                      created_at |-> now,
                      updated_at |-> now]
       IN  /\ staff_members' = staff_members \cup {member}
           /\ staffSeq' = staffSeq + 1
           /\ ret' = Returned("createStaffMember", member)
           /\ UNCHANGED <<kpi_data, kpiSeq>>

\* an update that sets all four fields, the absent ones too
Updated_AllFields(r, input) ==
    [r EXCEPT !.updated_at = now, !.name = input.name, !.position = input.position,
              !.department = input.department, !.status = input.status]

\* the record of updateStaffMember's update ... set(updateData)
Updated(r, input) ==
    [r EXCEPT !.updated_at = now,
              !.name = IF "name" \in input.has THEN input.name ELSE @,
              !.position = IF "position" \in input.has THEN input.position ELSE @,
              !.department = IF "department" \in input.has THEN input.department ELSE @,
              !.status = IF "status" \in input.has THEN input.status ELSE @]

\* updateStaffMember: update by id, and throw when no row was updated
UpdateStaffMember(input) ==
    /\ BeginOther("staff")
    /\ LET found == {r \in staff_members : r.id = input.id}
       IN  \/ /\ found = {}
              /\ ret' = Raised("updateStaffMember", NotFound(input.id))
              /\ UNCHANGED store
           \/ \E r \in found :
                /\ staff_members' = (staff_members \ {r}) \cup {Updated(r, input)}
                /\ ret' = Returned("updateStaffMember", Updated(r, input))
                /\ UNCHANGED <<kpi_data, kpiSeq, staffSeq>>

\* a delete with a wrong condition: where id <= the id given
StaffWithout_UpTo(id) == {r \in staff_members : r.id > id}

\* delete from staff_members where id = id: what is left
StaffWithout(id) == {r \in staff_members : r.id # id}

\* a deleteStaffMember without its check: it deletes and returns success
\* whether the id is stored or not
DeleteStaffMember_Silent(id) ==
    /\ BeginOther("staff")
    /\ staff_members' = StaffWithout(id)
    /\ ret' = [NoRet EXCEPT !.op = "deleteStaffMember",
                            !.status = "returned", !.success = TRUE]
    /\ UNCHANGED <<kpi_data, kpiSeq, staffSeq>>

\* deleteStaffMember: select by id, throw when there is none, else delete
DeleteStaffMember(id) ==
    /\ BeginOther("staff")
    /\ LET existingStaffMember == {r \in staff_members : r.id = id}
       IN  \/ /\ existingStaffMember = {}
              /\ ret' = Raised("deleteStaffMember", NotFound(id))
              /\ UNCHANGED store
           \/ /\ existingStaffMember # {}
              /\ staff_members' = StaffWithout(id)
              /\ ret' = [NoRet EXCEPT !.op = "deleteStaffMember",
                                      !.status = "returned", !.success = TRUE]
              /\ UNCHANGED <<kpi_data, kpiSeq, staffSeq>>

\* the inputs of getKpiData that pass dateRangeQuerySchema.optional(): no
\* query, a query without dates, and queries with one date or both, among
\* them one day as both bounds, a range between the stored weeks, a range
\* that holds the later week, and a range whose end is before its start.
\* has names the dates that are not undefined; a Date is truthy.
Query(has, start_date, end_date) ==
    [given |-> TRUE, has |-> has, start_date |-> start_date, end_date |-> end_date]
NoQuery == [given |-> FALSE, has |-> {}, start_date |-> 0, end_date |-> 0]
DateRangeQueries ==
    { NoQuery,
      Query({}, 0, 0),
      Query({"start_date"}, 20240108, 0),
      Query({"end_date"}, 0, 20240101),
      Query({"start_date", "end_date"}, 20240101, 20240101),
      Query({"start_date", "end_date"}, 20240102, 20240107),
      Query({"start_date", "end_date"}, 20240105, 20240110),
      Query({"start_date", "end_date"}, 20240108, 20240101) }

\* conditions with > and < in the place of gte and lte
Conditions_Exclusive(query, r) ==
    /\ (query.given /\ "start_date" \in query.has) => r.week_date > query.start_date
    /\ (query.given /\ "end_date" \in query.has) => r.week_date < query.end_date

\* the where clause of getKpiData: gte(week_date, start_date) when
\* query?.start_date is given, lte(week_date, end_date) when query?.end_date is
Conditions(query, r) ==
    /\ (query.given /\ "start_date" \in query.has) => r.week_date >= query.start_date
    /\ (query.given /\ "end_date" \in query.has) => r.week_date <= query.end_date

\* orderBy(asc(week_date)): the orders the store may return the records of
\* S in; records of one week_date come in any order
OrderByWeekDate(S) ==
    {results \in [1..Cardinality(S) -> S] :
        /\ \A j, k \in 1..Cardinality(S) : j # k => results[j] # results[k]
        /\ \A j, k \in 1..Cardinality(S) :
              j < k => results[j].week_date <= results[k].week_date}

DigitChar(d) ==
    CASE d = 0 -> "0" [] d = 1 -> "1" [] d = 2 -> "2" [] d = 3 -> "3"
      [] d = 4 -> "4" [] d = 5 -> "5" [] d = 6 -> "6" [] d = 7 -> "7"
      [] d = 8 -> "8" [] d = 9 -> "9"

RECURSIVE DigitsOf(_)
DigitsOf(n) ==
    IF n < 10 THEN <<DigitChar(n)>>
    ELSE DigitsOf(n \div 10) \o <<DigitChar(n % 10)>>

\* a numeric(p, 2) column as the driver returns it: a string with two
\* decimals
NumericText(n) ==
       (IF n.neg THEN <<"-">> ELSE <<>>)
    \o DigitsOf(n.ip) \o <<".">>
    \o <<DigitChar(n.mil \div 100), DigitChar((n.mil \div 10) % 10)>>

\* results.map: the three numeric columns through parseFloat
KpiFromRow(kpi) ==
    [kpi EXCEPT !.efficiency = parseFloat(NumericText(kpi.efficiency)),
                !.production_rate = parseFloat(NumericText(kpi.production_rate)),
                !.defects_ppm = parseFloat(NumericText(kpi.defects_ppm))]

\* getKpiData: select with the conditions, ordered by week_date
GetKpiData(query) ==
    /\ BeginOther("kpi")
    /\ \E results \in OrderByWeekDate({r \in kpi_data : Conditions(query, r)}) :
          ret' = [NoRet EXCEPT !.op = "getKpiData", !.status = "returned",
                               !.success = TRUE,
                               !.record = [k \in 1..Len(results) |->
                                              KpiFromRow(results[k])]]
    /\ UNCHANGED store

CreateKpi == \E input \in CreateKpiDataInputs : CreateKpiData(input)
GetKpi == \E query \in DateRangeQueries : GetKpiData(query)
CreateStaff == \E input \in CreateStaffMemberInputs : CreateStaffMember(input)
UpdateStaff == \E input \in UpdateStaffMemberInputs : UpdateStaffMember(input)
DeleteStaff == \E id \in 1..(staffSeq + 1) : DeleteStaffMember(id)

(* ------------------------------- client -------------------------------- *)

\* The upload form of the client: the state of the component (csvFile,
\* csvType, isUploading, uploadStatus.type) and the runs of handleCsvUpload
\* that wait at one of its awaits, each with the csvFile and csvType of the
\* render it was started from. The server answers a mutate with the
\* result of uploadCsv as modelled above.

\* the files a user picks, as the sequences of their lines
ClientFiles ==
    { <<"KH", "K1">>, <<"KH", "Kbad", "K3">>, <<"SH", "S1", "S2">>, <<"KH">>, <<>> }

\* a button that is disabled while no file is chosen, and only then
ButtonDisabled_NoFileOnly == client.csvFile = <<>>

\* disabled={!csvFile || isUploading}
ButtonDisabled == client.csvFile = <<>> \/ client.isUploading

\* a sequence without its k-th element
Without(seq, k) == SubSeq(seq, 1, k - 1) \o SubSeq(seq, k + 1, Len(seq))

\* onChange of the file input: the file picked, or null
SelectFile(file) ==
    /\ client' = [client EXCEPT !.csvFile = file]
    /\ UNCHANGED <<store, now, bounds, up, ret, prev, jobs>>

\* onValueChange of the type select
SelectType(type) ==
    /\ client.csvType # type
    /\ client' = [client EXCEPT !.csvType = type]
    /\ UNCHANGED <<store, now, bounds, up, ret, prev, jobs>>

\* onDismiss of the notification banner
Dismiss ==
    /\ client.uploadStatus # "null"
    /\ client' = [client EXCEPT !.uploadStatus = "null"]
    /\ UNCHANGED <<store, now, bounds, up, ret, prev, jobs>>

\* a click on the upload button: handleCsvUpload up to await csvFile.text()
ClickUpload ==
    /\ ~ButtonDisabled
    /\ client.clicks < MaxClicks
    /\ client.csvFile # <<>>
    /\ client' = [client EXCEPT
                    !.clicks = @ + 1,
                    !.isUploading = TRUE,
                    !.uploadStatus = "null",
                    !.runs = Append(@, [pc |-> "text", type |-> client.csvType,
                                        file |-> client.csvFile])]
    /\ UNCHANGED <<store, now, bounds, up, ret, prev, jobs>>

\* the catch and the finally of handleCsvUpload, for run k
RunFailed(k) ==
    client' = [client EXCEPT !.uploadStatus = "error",
                             !.isUploading = FALSE,
                             !.runs = Without(@, k)]

\* csvFile.text() resolved: the run calls trpc.uploadCsv.mutate, and the
\* server starts uploadCsv with the input
TextResolved(k) ==
    /\ k \in 1..Len(client.runs)
    /\ client.runs[k].pc = "text"
    /\ \A j \in 1..Len(client.runs) : client.runs[j].pc # "mutate"
    /\ UploadStart([type |-> client.runs[k].type, data |-> client.runs[k].file[1]])
    /\ client' = [client EXCEPT !.runs[k].pc = "mutate"]
    /\ UNCHANGED jobs

\* csvFile.text() rejected
TextRejected(k) ==
    /\ k \in 1..Len(client.runs)
    /\ client.runs[k].pc = "text"
    /\ RunFailed(k)
    /\ UNCHANGED <<store, now, bounds, up, ret, prev, jobs>>

\* trpc.uploadCsv.mutate resolved with the result of the server: the
\* success notification, then the reload of the list
MutateResolved(k) ==
    /\ k \in 1..Len(client.runs)
    /\ client.runs[k].pc = "mutate"
    /\ up.pc = "done"
    /\ ret.op = "uploadCsv"
    /\ ret.status = "returned"
    /\ client' = [client EXCEPT !.uploadStatus = "success",
                                !.runs[k].pc = "reload"]
    /\ UNCHANGED <<store, now, bounds, up, ret, prev, jobs>>

\* trpc.uploadCsv.mutate rejected: the request or the answer was lost, or
\* the server threw
MutateRejected(k) ==
    /\ k \in 1..Len(client.runs)
    /\ client.runs[k].pc = "mutate"
    /\ RunFailed(k)
    /\ UNCHANGED <<store, now, bounds, up, ret, prev, jobs>>

\* loadKpiData or loadStaffMembers returned (each catches what its query
\* throws): setCsvFile(null) and the finally
ReloadDone(k) ==
    /\ k \in 1..Len(client.runs)
    /\ client.runs[k].pc = "reload"
    /\ client' = [client EXCEPT !.csvFile = <<>>,
                                !.isUploading = FALSE,
                                !.runs = Without(@, k)]
    /\ UNCHANGED <<store, now, bounds, up, ret, prev, jobs>>

PickFile == \E file \in {<<>>} \cup {<<f>> : f \in ClientFiles} : SelectFile(file)
PickType == \E type \in {"kpi", "staff"} : SelectType(type)
ReadFile == \E k \in 1..MaxClicks : TextResolved(k)
ReadFileFailed == \E k \in 1..MaxClicks : TextRejected(k)
Answered == \E k \in 1..MaxClicks : MutateResolved(k)
Unanswered == \E k \in 1..MaxClicks : MutateRejected(k)
Reloaded == \E k \in 1..MaxClicks : ReloadDone(k)

ClientNext ==
    \/ PickFile
    \/ PickType
    \/ Dismiss
    \/ ClickUpload
    \/ ReadFile
    \/ ReadFileFailed
    \/ UploadKpiRow
    \/ UploadStaffRow
    \/ UploadReturn
    \/ Answered
    \/ Unanswered
    \/ Reloaded

\* the client and the uploadCsv calls it makes, on the empty tables
ClientSpec == Init /\ [][ClientNext]_vars

(* ---------------------------- specification ---------------------------- *)

Next ==
    \/ Tick
    \/ Upload
    \/ UploadKpiRow
    \/ UploadStaffRow
    \/ UploadReturn
    \/ CreateKpi
    \/ GetKpi
    \/ CreateStaff
    \/ UpdateStaff
    \/ DeleteStaff

Spec == Init /\ [][Next]_vars

\* uploadCsv runs to its end: the runtime goes on with the iteration that
\* is due and with the return after the last one; the store answers or
\* fails each call
FairSpec ==
    /\ Spec
    /\ WF_vars(UploadKpiRow)
    /\ WF_vars(UploadStaffRow)
    /\ WF_vars(UploadReturn)

(* ------------------------------ properties ----------------------------- *)

\* an uploadCsv call has returned and no other call was made since
UploadReturned == up.pc = "done" /\ ret.op = "uploadCsv"

\* the rows of the call in progress, or of the last call
Rows == DataRows(up.input)

\* the row the next iteration of the row loop handles
CurrentRow == Rows[up.i + 1]

\* the file passes the input-level checks: two lines or more, a known
\* type, and the headers of that type
PassesInputChecks(input) ==
    /\ Len(Lines[input.data]) >= 2
    /\ input.type \in {"kpi", "staff"}
    /\ Values[Lines[input.data][1]] =
          (IF input.type = "kpi" THEN KpiExpectedHeaders ELSE StaffExpectedHeaders)

\* a row that passes every validation of its kind
KpiRowValid(row) ==
    /\ Len(Values[row]) = 4
    /\ createKpiDataInputIssues(KpiTransform(Values[row])) = <<>>
StaffRowValid(row) ==
    /\ Len(Values[row]) = 4
    /\ Values[row][4] \in {S_active, S_on_vacation}
    /\ createStaffMemberInputIssues(StaffRow(Values[row])) = <<>>
RowValid(type, row) == IF type = "kpi" THEN KpiRowValid(row) ELSE StaffRowValid(row)

\* the natural key of a row and of a stored record
RowKey(type, row) ==
    IF type = "kpi" THEN <<NewDate(Values[row][1]).ymd>>
    ELSE <<Values[row][1], Values[row][3]>>
KpiKeyOf(r) == <<r.week_date>>
StaffKeyOf(r) == <<r.name, r.department>>
StoredKeys(type, kpi, staff) ==
    IF type = "kpi" THEN {KpiKeyOf(r) : r \in kpi} ELSE {StaffKeyOf(r) : r \in staff}

\* how an iteration of the row loop can end
StoreFailures == {"fault", "overflow"}
Reconciled == {"inserted", "updated"}

\* one iteration of a row loop
RowStep == up.pc = "rows" /\ up'.pc = "rows" /\ up'.i = up.i + 1

\* q is v as a column of two decimals keeps it: a multiple of 0.01, the
\* nearest one, the upper one of two that are as near
Keeps(q, v) ==
    LET d == (q.ip - v.ip) * 1000 + (q.mil - v.mil)
    IN  ~q.nan /\ ~q.neg /\ q.mil % 10 = 0 /\ -5 < d /\ d <= 5

\* C1 (as the spec states it): in every reachable state kpi_data holds at
\* most one record per week_date. createKpiData inserts without a lookup
\* and the table has no unique constraint: two calls for one week break it.
C1_OneRecordPerWeek ==
    \A r1, r2 \in kpi_data : r1.week_date = r2.week_date => r1 = r2

\* C2 (as the spec states it): in every reachable state no two staff
\* records share the pair (name, department). createStaffMember inserts
\* without a lookup and updateStaffMember renames without one.
C2_OneRecordPerNameAndDepartment ==
    \A r1, r2 \in staff_members :
        (r1.name = r2.name /\ r1.department = r2.department) => r1 = r2

\* uploadCsv has run a second time, right after a first run with the same
\* input that returned no error, and the store answered every call of the
\* second run
RepeatedRun ==
    /\ UploadReturned
    /\ prev.op = "uploadCsv"
    /\ prev.input = up.input
    /\ prev.success
    /\ \A j \in 1..Len(up.outcomes) : up.outcomes[j] \notin StoreFailures

KpiReconcileStep ==
    /\ RowStep
    /\ up.input.type = "kpi"
    /\ KpiRowValid(CurrentRow)
    /\ up'.outcomes[up.i + 1] \notin StoreFailures

\* what C4 says of such an iteration, for a given reading of "the record
\* holds the value": the records of the row's week, if any, take the row's
\* three values and keep the rest, all other records are untouched and
\* none is added; else one record of the row's four values is added.
KpiReconciled(holds(_, _)) ==
    LET t == KpiTransform(Values[CurrentRow])
        week == t.week_date.ymd
        hasValues(q) == /\ holds(q.efficiency, t.efficiency)
                        /\ holds(q.production_rate, t.production_rate)
                        /\ holds(q.defects_ppm, t.defects_ppm)
    IN  /\ IF \E r \in kpi_data : r.week_date = week
           THEN /\ Cardinality(kpi_data') = Cardinality(kpi_data)
                /\ \A r \in kpi_data : \E q \in kpi_data' :
                      /\ q.id = r.id
                      /\ q.week_date = r.week_date
                      /\ q.created_at = r.created_at
                      /\ IF r.week_date = week THEN hasValues(q) ELSE q = r
           ELSE \E n \in kpi_data' :
                      /\ n \notin kpi_data
                      /\ kpi_data' = kpi_data \cup {n}
                      /\ n.id \notin {r.id : r \in kpi_data}
                      /\ n.week_date = week
                      /\ hasValues(n)
        /\ C1_OneRecordPerWeek => C1_OneRecordPerWeek'

Exactly(q, v) == q = v

\* C4 (as the spec states it): a valid KPI row is reconciled by week_date
\* and the record holds the row's values as the row gives them.
C4_KpiRowStoredAsGiven == [][KpiReconcileStep => KpiReconciled(Exactly)]_vars

\* C4 (amended): a valid KPI row that the store accepts is reconciled by
\* week_date and the record holds the row's values rounded to two
\* decimals, as the numeric columns keep them: an update leaves week_date,
\* id and created_at alone and adds no record, else exactly one record is
\* inserted; one record per week_date before the row is one after it.
C4_KpiRowStoredRounded == [][KpiReconcileStep => KpiReconciled(Keeps)]_vars

\* C4 witness: the row 2024-01, 95.555, 180.25, 15.2 has updated the record
\* of 2024-01-01 that the row before it inserted, and the record holds 95.56.
C4_Witness ==
    /\ up.input.type = "kpi"
    /\ up.outcomes = <<"inserted", "updated">>
    /\ \E r \in kpi_data : r.week_date = 20240101 /\ r.efficiency = Num(95, 560)

\* an iteration of the staff row loop on a valid row that the store answers
StaffReconcileStep ==
    /\ RowStep
    /\ up.input.type = "staff"
    /\ StaffRowValid(CurrentRow)
    /\ up'.outcomes[up.i + 1] \notin StoreFailures

\* C5: a valid staff row is reconciled by (name, department). If a stored
\* record has the row's name and department, one such record takes the
\* row's position and status and the time of the call as updated_at, its
\* name, department, id and created_at stay, and no record is added; if
\* none has both, also when the name is stored in other departments only,
\* exactly one record of the row's values is inserted.
C5_StaffRowReconciled ==
    [][StaffReconcileStep =>
        LET values == Values[CurrentRow]
            matches == {r \in staff_members :
                          r.name = values[1] /\ r.department = values[3]}
        IN  IF matches # {}
            THEN /\ Cardinality(staff_members') = Cardinality(staff_members)
                 /\ \E m \in matches :
                      staff_members' =
                          (staff_members \ {m}) \cup
                              {[id |-> m.id, name |-> m.name, department |-> m.department,
                                created_at |-> m.created_at, position |-> values[2],
                                status |-> values[4], updated_at |-> now]}
            ELSE \E n \in staff_members' :
                      /\ n \notin staff_members
                      /\ staff_members' = staff_members \cup {n}
                      /\ n.id \notin {r.id : r \in staff_members}
                      /\ n.name = values[1]
                      /\ n.position = values[2]
                      /\ n.department = values[3]
                      /\ n.status = values[4]
    ]_vars

\* C5 witness: a staff row has inserted a record whose name was stored in
\* another department only, and both records are stored.
C5_Witness ==
    /\ up.input.type = "staff"
    /\ up.outcomes # <<>>
    /\ up.outcomes[Len(up.outcomes)] = "inserted"
    /\ \E n, o \in staff_members :
          /\ n.id = staffSeq
          /\ o.name = n.name
          /\ o.department # n.department
          /\ \A r \in staff_members : StaffKeyOf(r) = StaffKeyOf(n) => r = n

\* the valid rows of the last call that carry the key of row j
SameKey(j) ==
    {k \in 1..Len(Rows) :
        /\ RowValid(up.input.type, Rows[k])
        /\ RowKey(up.input.type, Rows[k]) = RowKey(up.input.type, Rows[j])}

C7_RowFailureNeverStops ==
    (up.pc \in {"rows", "done"} /\ PassesInputChecks(up.input)) =>
        /\ Len(up.outcomes) = up.i
        /\ up.pc = "done" => up.i = Len(Rows)
        /\ up.recordsProcessed =
              Cardinality({j \in 1..up.i : up.outcomes[j] \in Reconciled})
        /\ Len(up.errors) =
              Cardinality({j \in 1..up.i : up.outcomes[j] \notin Reconciled})
        /\ \A j \in 1..up.i :
              IF RowValid(up.input.type, Rows[j])
              THEN \/ up.outcomes[j] \in StoreFailures
                   \/ /\ up.outcomes[j] \in Reconciled
                      /\ RowKey(up.input.type, Rows[j])
                            \in StoredKeys(up.input.type, kpi_data, staff_members)
              ELSE up.outcomes[j] \in {"columns", "format", "status", "business"}

\* C7 witness: a file whose first row fails and whose second row is valid
\* has been handled to its end, and the second row's record is stored.
C7_Witness ==
    /\ up.pc = "done"
    /\ PassesInputChecks(up.input)
    /\ Len(Rows) = 2
    /\ ~RowValid(up.input.type, Rows[1])
    /\ RowValid(up.input.type, Rows[2])
    /\ up.outcomes[2] = "inserted"
    /\ ret.recordsProcessed = 1
    /\ Len(ret.errors) = 1

\* C8: in every result of uploadCsv success is true exactly when the
\* errors list is empty.
C8_SuccessIffNoErrors ==
    (ret.op = "uploadCsv" /\ ret.status = "returned") =>
        (ret.success <=> ret.errors = <<>>)

\* C8 witness: a result with success = false and recordsProcessed > 0.
C8_Witness ==
    /\ ret.op = "uploadCsv"
    /\ ret.status = "returned"
    /\ ~ret.success
    /\ ret.recordsProcessed > 0

\* C9: a store failure while a row is reconciled is caught for that row:
\* the iteration appends exactly one error 'Row {rowIndex}: Database error
\* - {message}' with the row's index and the store's message, leaves
\* recordsProcessed as it is and goes on to the next row; a valid KPI row
\* with a value too large for its column is such a failure; and uploadCsv
\* returns a result, it never raises.
C9_StoreFailureCaught ==
    /\ [][(RowStep /\ up'.outcomes[up.i + 1] \in StoreFailures) =>
            /\ Len(up'.errors) = Len(up.errors) + 1
            /\ SubSeq(up'.errors, 1, Len(up.errors)) = up.errors
            /\ up'.errors[Len(up'.errors)].kind =
                  "Row {rowIndex}: Database error - {message}"
            /\ up'.errors[Len(up'.errors)].row = up.i + 2
            /\ up'.errors[Len(up'.errors)].text \in
                  {"connection terminated", "numeric field overflow"}
            /\ up'.recordsProcessed = up.recordsProcessed
          ]_vars
    /\ [][(RowStep /\ up.input.type = "kpi" /\ KpiRowValid(CurrentRow)
             /\ KpiTransform(Values[CurrentRow]).production_rate.ip >= 100000000)
            => up'.outcomes[up.i + 1] \in StoreFailures]_vars
    /\ [](up.pc \in {"rows", "done"} => ret.status # "raised")
    /\ [](ret.op = "uploadCsv" => ret.status = "returned")
    /\ []((up.pc = "done" /\ \E j \in 1..Len(up.outcomes) : up.outcomes[j] \in StoreFailures)
            => (ret.op = "uploadCsv" /\ ~ret.success))

\* C9 witness: the store failed on the first row of a file, the second row
\* was reconciled, and uploadCsv returned its result.
C9_Witness ==
    /\ up.pc = "done"
    /\ Len(up.outcomes) = 2
    /\ up.outcomes[1] \in StoreFailures
    /\ up.outcomes[2] \in Reconciled
    /\ ret.status = "returned"
    /\ ret.recordsProcessed = 1
    /\ Len(ret.errors) = 1

\* uploadCsv has returned for a type that is neither 'kpi' nor 'staff'
OtherTypeReturned == UploadReturned /\ up.input.type \notin {"kpi", "staff"}

\* the call returned one input-level error, examined no row and left the
\* store alone
OnlyError(kind, text) ==
    /\ ret.status = "returned"
    /\ ~ret.success
    /\ ret.recordsProcessed = 0
    /\ Len(ret.errors) = 1
    /\ ret.errors[1].kind = kind
    /\ ret.errors[1].text = text
    /\ up.i = 0
    /\ up.outcomes = <<>>
    /\ kpi_data = up.kpi0
    /\ staff_members = up.staff0

\* C10 (as the spec states it): for a type other than 'kpi' and 'staff'
\* and every text, uploadCsv returns the one error "Invalid type '{type}'.
\* Must be 'kpi' or 'staff'", examines no row and leaves the store alone.
C10_InvalidTypeForEveryText ==
    OtherTypeReturned =>
        OnlyError("Invalid type '{type}'. Must be 'kpi' or 'staff'", up.input.type)

\* C10 (amended): for a type other than 'kpi' and 'staff' uploadCsv
\* returns that error when the trimmed text has two lines or more; the
\* text is looked at first, so an empty or blank text gives "CSV data is
\* empty" and a text of one line "CSV contains only headers, no data
\* rows". In each case no row is examined and the store is left alone.
C10_InvalidTypeAfterTextChecks ==
    OtherTypeReturned =>
        IF TrimmedData[up.input.data] = <<>>
        THEN OnlyError("CSV data is empty", "")
        ELSE IF Len(Lines[up.input.data]) < 2
        THEN OnlyError("CSV contains only headers, no data rows", "")
        ELSE OnlyError("Invalid type '{type}'. Must be 'kpi' or 'staff'", up.input.type)

\* C10 witness: uploadCsv has returned the invalid-type error for a text
\* of two lines.
C10_Witness ==
    /\ OtherTypeReturned
    /\ Len(Lines[up.input.data]) = 2
    /\ ret.errors[1].kind = "Invalid type '{type}'. Must be 'kpi' or 'staff'"
    /\ ret.errors[1].text = "invalid"

\* the call in progress, or the last call, has made no store call so far
\* and the tables are as they were when it started
NoStoreAccess ==
    /\ up.selects = 0
    /\ kpi_data = up.kpi0
    /\ staff_members = up.staff0

\* uploadCsv has returned for a text of two lines or more and a known
\* type, whose header cells, trimmed, are not the expected ones
HeaderMismatchReturned ==
    /\ UploadReturned
    /\ Len(Lines[up.input.data]) >= 2
    /\ up.input.type \in {"kpi", "staff"}
    /\ Values[Lines[up.input.data][1]] #
          (IF up.input.type = "kpi" THEN KpiExpectedHeaders ELSE StaffExpectedHeaders)

\* C11: a header line that does not match the expected headers of the
\* type ends the call: success = false, recordsProcessed = 0, exactly one
\* error, no row handled, no store call. The error gives the two counts
\* when they differ, else the 1-based position of the first column that
\* differs with the expected and the actual name.
C11_HeaderMismatchAborts ==
    HeaderMismatchReturned =>
        LET actual == Values[Lines[up.input.data][1]]
            expected == IF up.input.type = "kpi" THEN KpiExpectedHeaders
                        ELSE StaffExpectedHeaders
            e == ret.errors[1]
        IN  /\ ret.status = "returned"
            /\ ~ret.success
            /\ ret.recordsProcessed = 0
            /\ Len(ret.errors) = 1
            /\ up.i = 0
            /\ up.outcomes = <<>>
            /\ NoStoreAccess
            /\ IF Len(actual) # Len(expected)
               THEN /\ e.kind = "Invalid header count. Expected {N} columns: [...], got {M}: [...]"
                    /\ e.expected = Len(expected)
                    /\ e.got = Len(actual)
               ELSE \E j \in 1..Len(expected) :
                       /\ actual[j] # expected[j]
                       /\ \A k \in 1..(j - 1) : actual[k] = expected[k]
                       /\ e.kind = "Invalid header at position {i}. Expected '{e}', got '{a}'"
                       /\ e.got = j
                       /\ e.wanted = expected[j]
                       /\ e.cell = actual[j]

\* C11 witness: a staff file whose third and fourth header are exchanged
\* was refused with the error for position 3.
C11_Witness ==
    /\ HeaderMismatchReturned
    /\ up.input = [type |-> "staff", data |-> <<"SHswapped", "S1">>]
    /\ ret.errors[1].got = 3
    /\ ret.errors[1].wanted = H_department
    /\ ret.errors[1].cell = H_status

\* the text of the call is empty or white space only
BlankText ==
    LET text == Text(up.input.data)
    IN  \A k \in 1..Len(text) : text[k] \in {" ", "\n", "\t", "\r"}

\* C12: for every type, a text that is empty or white space only gives
\* the single error "CSV data is empty" with success = false and
\* recordsProcessed = 0; no row is handled and no store call is made.
C12_EmptyTextAborts ==
    (UploadReturned /\ BlankText) =>
        /\ OnlyError("CSV data is empty", "")
        /\ up.selects = 0

\* C12 witness: a text of two lines of white space was refused as empty.
C12_Witness ==
    /\ UploadReturned
    /\ up.input.data = <<"Blank", "Blank">>
    /\ ret.errors = <<[kind |-> "CSV data is empty", row |-> 0, expected |-> 0,
                       got |-> 0, cell |-> <<>>, wanted |-> <<>>, text |-> "",
                       issues |-> <<>>]>>

\* the text of the call, trimmed, is one line
OneLineText ==
    LET text == TrimmedData[up.input.data]
    IN  text # <<>> /\ \A k \in 1..Len(text) : text[k] # "\n"

\* C13: a text whose trimmed form is a single line gives the single error
\* "CSV contains only headers, no data rows" and leaves the store alone,
\* whatever the line holds and whatever the type: the check comes before
\* the headers and the type are looked at.
C13_HeadersOnlyAborts ==
    (UploadReturned /\ OneLineText) =>
        /\ OnlyError("CSV contains only headers, no data rows", "")
        /\ up.selects = 0

\* C13 witness: a KPI upload of the staff header line alone was refused
\* as headers only.
C13_Witness ==
    /\ UploadReturned
    /\ up.input = [type |-> "kpi", data |-> <<"SH">>]
    /\ ret.errors[1].kind = "CSV contains only headers, no data rows"

\* the data rows handled so far that have an error: the rows that are not
\* valid and the rows the store failed on
FailedRows ==
    {j \in 1..up.i : \/ ~RowValid(up.input.type, Rows[j])
                     \/ up.outcomes[j] \in StoreFailures}

\* the templates of the row-level errors
RowErrorKinds ==
    { "Row {rowIndex}: Expected {N} columns, got {M}",
      "Row {rowIndex}: Invalid CSV format - {messages}",
      "Row {rowIndex}: Invalid status '{value}'. Must be 'active' or 'on_vacation'",
      "Row {rowIndex}: {path message, ...}",
      "Row {rowIndex}: Database error - {message}" }

\* C14: the errors list is in row order and nothing is merged. It has one
\* error per failed row; the k-th error is a 'Row {rowIndex}' error of the
\* k-th failed row, with rowIndex the number of the data row plus 1; so
\* the rowIndex values go strictly up.
C14_ErrorsInRowOrder ==
    (up.pc \in {"rows", "done"} /\ PassesInputChecks(up.input)) =>
        /\ Len(up.errors) = Cardinality(FailedRows)
        /\ \A k \in 1..Len(up.errors) :
              /\ up.errors[k].kind \in RowErrorKinds
              /\ up.errors[k].row - 1 \in FailedRows
              /\ Cardinality({j \in FailedRows : j < up.errors[k].row - 1}) = k - 1
        /\ \A k \in 1..(Len(up.errors) - 1) : up.errors[k].row < up.errors[k + 1].row
        /\ up.pc = "done" => ret.errors = up.errors

\* C14 witness: a file of two equal rows with the same defects has given
\* two errors that differ in their rowIndex only, 2 and 3.
C14_Witness ==
    /\ up.pc = "done"
    /\ Len(Rows) = 2
    /\ Rows[1] = Rows[2]
    /\ Len(ret.errors) = 2
    /\ ret.errors[1].row = 2
    /\ ret.errors[2].row = 3
    /\ ret.errors[2] = [ret.errors[1] EXCEPT !.row = 3]

\* the cells of a row: one more than its commas
ColumnCount(row) == Cardinality({k \in 1..Len(row) : row[k] = ","}) + 1

\* C15: a data row that has not 4 cells gives exactly the error 'Row
\* {rowIndex}: Expected 4 columns, got {M}', M being the number of its
\* cells (1 for a blank line). Nothing else is appended for the row, it
\* is not counted in recordsProcessed, and no store call is made for it.
C15_WrongColumnCount ==
    [][(RowStep /\ ColumnCount(CurrentRow) # 4) =>
        /\ up'.errors =
              Append(up.errors,
                     [kind |-> "Row {rowIndex}: Expected {N} columns, got {M}",
                      row |-> up.i + 2, expected |-> 4,
                      got |-> ColumnCount(CurrentRow), cell |-> <<>>,
                      wanted |-> <<>>, text |-> "", issues |-> <<>>])
        /\ up'.recordsProcessed = up.recordsProcessed
        /\ up'.selects = up.selects
        /\ store' = store
    ]_vars

\* C15 witness: a KPI file with a blank line between its header and a
\* valid row has returned: the blank line is row 2 with 1 column, the
\* valid row was reconciled.
C15_Witness ==
    /\ up.pc = "done"
    /\ up.input = [type |-> "kpi", data |-> <<"KH", "Empty", "K3">>]
    /\ Len(ret.errors) = 1
    /\ ret.errors[1].kind = "Row {rowIndex}: Expected {N} columns, got {M}"
    /\ ret.errors[1].row = 2
    /\ ret.errors[1].got = 1
    /\ ret.recordsProcessed = 1

\* what is wrong with a number read from a cell, if anything
NumberViolations(path, n, max) ==
    IF n.nan THEN {<<path, "Expected number, received nan">>}
    ELSE IF n.neg /\ (n.ip > 0 \/ n.mil > 0)
    THEN {<<path, "Number must be greater than or equal to 0">>}
    ELSE IF max /\ (n.ip > 100 \/ (n.ip = 100 /\ n.mil > 0))
    THEN {<<path, "Number must be less than or equal to 100">>}
    ELSE {}

\* what is wrong with a text cell, if anything
TextViolations(path, cell) ==
    IF cell = <<>> THEN {<<path, "String must contain at least 1 character(s)">>}
    ELSE {}

\* the fields of a row of four cells that break a business rule, each with
\* the message of its rule
Violations(type, values) ==
    IF type = "kpi"
    THEN (IF NewDate(values[1]).valid THEN {} ELSE {<<"week_date", "Invalid date">>})
         \cup NumberViolations("efficiency", parseFloat(values[2]), TRUE)
         \cup NumberViolations("production_rate", parseFloat(values[3]), FALSE)
         \cup NumberViolations("defects_ppm", parseFloat(values[4]), FALSE)
    ELSE TextViolations("name", values[1])
         \cup TextViolations("position", values[2])
         \cup TextViolations("department", values[3])

\* an iteration on a row of four cells (with a known status, for a staff
\* row) that breaks a business rule
BusinessFailureStep ==
    /\ RowStep
    /\ ColumnCount(CurrentRow) = 4
    /\ up.input.type = "staff" => Values[CurrentRow][4] \in {S_active, S_on_vacation}
    /\ Violations(up.input.type, Values[CurrentRow]) # {}

\* C16: a row that fails business validation gives exactly one error, for
\* its rowIndex, that names every failing field once with the message of
\* its rule; the row is not counted in recordsProcessed and no store call
\* is made for it.
C16_BusinessFailureReported ==
    [][BusinessFailureStep =>
        LET e == up'.errors[Len(up'.errors)]
            named == {<<e.issues[k].path, e.issues[k].message>> :
                          k \in 1..Len(e.issues)}
        IN  /\ Len(up'.errors) = Len(up.errors) + 1
            /\ SubSeq(up'.errors, 1, Len(up.errors)) = up.errors
            /\ e.kind = "Row {rowIndex}: {path message, ...}"
            /\ e.row = up.i + 2
            /\ named = Violations(up.input.type, Values[CurrentRow])
            /\ Len(e.issues) = Cardinality(named)
            /\ up'.recordsProcessed = up.recordsProcessed
            /\ up'.selects = up.selects
            /\ store' = store
    ]_vars

\* C16 witness: the KPI row abc,105.5,-10,abc has given one error that
\* names its four fields.
C16_Witness ==
    /\ up.input.type = "kpi"
    /\ up.i = 1
    /\ up.outcomes = <<"business">>
    /\ Len(up.errors) = 1
    /\ up.errors[1].issues =
          << [path |-> "week_date", message |-> "Invalid date"],
             [path |-> "efficiency",
              message |-> "Number must be less than or equal to 100"],
             [path |-> "production_rate",
              message |-> "Number must be greater than or equal to 0"],
             [path |-> "defects_ppm", message |-> "Expected number, received nan"] >>
    /\ up.selects = 0

\* the data-model constraints of a stored record
KpiRecordOk(r) ==
    /\ ~r.efficiency.nan /\ ~r.efficiency.neg
    /\ r.efficiency.ip < 100 \/ (r.efficiency.ip = 100 /\ r.efficiency.mil = 0)
    /\ ~r.production_rate.nan /\ ~r.production_rate.neg
    /\ ~r.defects_ppm.nan /\ ~r.defects_ppm.neg
StaffRecordOk(r) ==
    /\ r.name # <<>>
    /\ r.position # <<>>
    /\ r.department # <<>>
    /\ r.status \in {<<"a", "c", "t", "i", "v", "e">>,
                     <<"o", "n", "_", "v", "a", "c", "a", "t", "i", "o", "n">>}

\* C17: every record that an iteration of uploadCsv inserts or updates
\* satisfies the data-model constraints after the write: efficiency in
\* [0, 100], production_rate >= 0, defects_ppm >= 0; name, position and
\* department not empty and status active or on_vacation.
C17_WrittenRecordsValid ==
    [][(RowStep /\ up'.outcomes[up.i + 1] \in Reconciled) =>
        IF up.input.type = "kpi"
        THEN /\ \E r \in kpi_data' : <<r.week_date>> = RowKey("kpi", CurrentRow)
             /\ \A r \in kpi_data' :
                   (r \notin kpi_data \/ <<r.week_date>> = RowKey("kpi", CurrentRow))
                      => KpiRecordOk(r)
        ELSE /\ \E r \in staff_members' :
                   /\ <<r.name, r.department>> = RowKey("staff", CurrentRow)
                   /\ StaffRecordOk(r)
             /\ \A r \in staff_members' : r \notin staff_members => StaffRecordOk(r)
    ]_vars

\* C17 witness: a KPI file with efficiency 0 in one row and 100 in the
\* other has returned and both records are stored, the rate of the second
\* being 0.
C17_Witness ==
    /\ up.pc = "done"
    /\ up.input = [type |-> "kpi", data |-> <<"KH", "K1", "K3">>]
    /\ up.outcomes = <<"inserted", "inserted">>
    /\ \E r \in kpi_data : r.week_date = 20240101 /\ r.efficiency = Num(0, 0)
    /\ \E r \in kpi_data :
          /\ r.week_date = 20240108
          /\ r.efficiency = Num(100, 0)
          /\ r.production_rate = Num(0, 0)

\* C18: a staff row of four cells whose status cell is not exactly
\* 'active' or 'on_vacation' gives exactly the error "Row {rowIndex}:
\* Invalid status '{value}'. Must be 'active' or 'on_vacation'" with the
\* cell as value, and no store call. The status is checked before the
\* other fields: a row that also has an empty name, position or
\* department gets the status error only.
C18_InvalidStatusReported ==
    [][(/\ RowStep
        /\ up.input.type = "staff"
        /\ ColumnCount(CurrentRow) = 4
        /\ Values[CurrentRow][4] \notin
              {<<"a", "c", "t", "i", "v", "e">>,
               <<"o", "n", "_", "v", "a", "c", "a", "t", "i", "o", "n">>}) =>
        /\ up'.errors =
              Append(up.errors,
                     [kind |-> "Row {rowIndex}: Invalid status '{value}'. Must be 'active' or 'on_vacation'",
                      row |-> up.i + 2, expected |-> 0, got |-> 0,
                      cell |-> Values[CurrentRow][4], wanted |-> <<>>,
                      text |-> "", issues |-> <<>>])
        /\ up'.recordsProcessed = up.recordsProcessed
        /\ up'.selects = up.selects
        /\ store' = store
    ]_vars

\* C18 witness: the row Bob,,HR,Active, with an empty position and the
\* status 'Active', has given the status error alone.
C18_Witness ==
    /\ up.input.type = "staff"
    /\ up.i = 1
    /\ Values[Rows[1]] = <<T_Bob, <<>>, T_HR, T_Active>>
    /\ Len(up.errors) = 1
    /\ up.errors[1].cell = T_Active
    /\ up.errors[1].issues = <<>>
    /\ up.selects = 0

\* the ids of the stored staff records
StaffIds == {r.id : r \in staff_members}

\* C19: deleteStaffMember(id) on a stored id returns {success: true},
\* removes the record of that id and no other, so that the staff table
\* has one record less, and leaves kpi_data as it is.
C19_DeleteRemovesOne ==
    [][\A id \in 1..(staffSeq + 1) :
          (DeleteStaffMember(id) /\ id \in StaffIds) =>
              /\ ret'.op = "deleteStaffMember"
              /\ ret'.status = "returned"
              /\ ret'.success
              /\ \E r \in staff_members :
                    r.id = id /\ staff_members' = staff_members \ {r}
              /\ \A r \in staff_members : r.id # id => r \in staff_members'
              /\ Cardinality(staff_members') = Cardinality(staff_members) - 1
              /\ kpi_data' = kpi_data
    ]_vars

\* C19 witness: deleteStaffMember has returned success, one of two staff
\* records is left, and a KPI record is stored.
C19_Witness ==
    /\ ret.op = "deleteStaffMember"
    /\ ret.status = "returned"
    /\ ret.success
    /\ staffSeq = 2
    /\ Cardinality(staff_members) = 1
    /\ kpi_data # {}

\* the call has thrown the not-found error of id
ThrewNotFound(r, op, id) ==
    /\ r.op = op
    /\ r.status = "raised"
    /\ ~r.success
    /\ r.record = <<>>
    /\ r.message = <<"Staff member with id {id} not found", id>>

\* C20: deleteStaffMember and updateStaffMember called with an id that is
\* not stored throw 'Staff member with id {id} not found', return no
\* result and leave the store as it is.
C20_NotFoundRaises ==
    [][/\ \A id \in 1..(staffSeq + 1) :
            (DeleteStaffMember(id) /\ id \notin StaffIds) =>
                (ThrewNotFound(ret', "deleteStaffMember", id) /\ store' = store)
       /\ \A input \in UpdateStaffMemberInputs :
            (UpdateStaffMember(input) /\ input.id \notin StaffIds) =>
                (ThrewNotFound(ret', "updateStaffMember", input.id) /\ store' = store)
    ]_vars

\* C20 witness: deleteStaffMember(2) has thrown while the record of id 1
\* is the only one stored.
C20_Witness ==
    /\ ThrewNotFound(ret, "deleteStaffMember", 2)
    /\ StaffIds = {1}

\* C21: updateStaffMember on a stored id writes, in the record of that id,
\* the fields of the input that are present, among name, position,
\* department and status, and the time of the call as updated_at; id,
\* created_at and the fields that are absent stay, every other record and
\* kpi_data stay, and the record returned is the record stored.
C21_UpdateWritesGivenFields ==
    [][\A input \in UpdateStaffMemberInputs :
          (UpdateStaffMember(input) /\ input.id \in StaffIds) =>
              \E r \in staff_members :
                  LET q == [id |-> r.id,
                            created_at |-> r.created_at,
                            updated_at |-> now,
                            name |-> IF "name" \in input.has THEN input.name
                                     ELSE r.name,
                            position |-> IF "position" \in input.has THEN input.position
                                         ELSE r.position,
                            department |-> IF "department" \in input.has
                                           THEN input.department ELSE r.department,
                            status |-> IF "status" \in input.has THEN input.status
                                       ELSE r.status]
                  IN  /\ r.id = input.id
                      /\ staff_members' = (staff_members \ {r}) \cup {q}
                      /\ \A o \in staff_members : o.id # input.id => o \in staff_members'
                      /\ Cardinality(staff_members') = Cardinality(staff_members)
                      /\ ret'.op = "updateStaffMember"
                      /\ ret'.status = "returned"
                      /\ ret'.record = <<q>>
                      /\ q \in staff_members'
                      /\ kpi_data' = kpi_data
                      /\ kpiSeq' = kpiSeq
                      /\ staffSeq' = staffSeq
    ]_vars

\* C21 witness: updateStaffMember has returned a record that kept its
\* position Eng and its name, took the status on_vacation and a later
\* updated_at, while the other record of the table is stored as before.
C21_Witness ==
    /\ ret.op = "updateStaffMember"
    /\ ret.status = "returned"
    /\ Cardinality(staff_members) = 2
    /\ ret.record[1] \in staff_members
    /\ ret.record[1].position = T_Eng
    /\ ret.record[1].status = S_on_vacation
    /\ ret.record[1].updated_at > ret.record[1].created_at
    /\ \E o \in staff_members : o.id # ret.record[1].id /\ o.updated_at = o.created_at

\* C22: getKpiData returns exactly the stored KPI records whose week_date
\* is >= start_date when one is given and <= end_date when one is given,
\* each once, with week_date never going down along the list, and leaves
\* the store as it is; without a query, or with a query without dates, it
\* returns every record, and the empty list when no record matches.
C22_GetKpiDataFiltersAndSorts ==
    [][\A query \in DateRangeQueries : (ret'.op = "getKpiData" /\ GetKpiData(query)) =>
          LET starts == query.given /\ "start_date" \in query.has
              ends == query.given /\ "end_date" \in query.has
              wanted == {r \in kpi_data :
                            /\ starts => r.week_date >= query.start_date
                            /\ ends => r.week_date <= query.end_date}
              list == ret'.record
          IN  /\ ret'.op = "getKpiData"
              /\ ret'.status = "returned"
              /\ {list[k] : k \in 1..Len(list)} = wanted
              /\ Len(list) = Cardinality(wanted)
              /\ \A k \in 1..(Len(list) - 1) : list[k].week_date <= list[k + 1].week_date
              /\ (~starts /\ ~ends) => Len(list) = Cardinality(kpi_data)
              /\ wanted = {} => list = <<>>
              /\ store' = store
    ]_vars

\* C22 witness: getKpiData has returned the three stored records, the two
\* of the week 2024-01-01 before the one of 2024-01-08 although that one
\* was inserted first, and an efficiency of two decimals as a number.
C22_Witness ==
    /\ ret.op = "getKpiData"
    /\ ret.status = "returned"
    /\ Cardinality(kpi_data) = 3
    /\ Len(ret.record) = 3
    /\ ret.record[1].week_date = 20240101
    /\ ret.record[2].week_date = 20240101
    /\ ret.record[3].week_date = 20240108
    /\ ret.record[3].id = 1
    /\ \E k \in 1..2 : ret.record[k].efficiency = Num(87, 670)

\* C23: uploadCsv terminates. A call either returns at an input-level
\* check with no row examined, or examines the data rows one by one in
\* file order, each exactly once whether it fails or not, and then
\* returns a result: the row counter only ever moves from i to i + 1, it
\* is the number of rows that have an outcome, the call returns only when
\* it is the number of data rows, and a call that is in its row loop
\* does return.
C23_UploadTerminates ==
    /\ [][up.pc = "rows" =>
            \/ up' = up
            \/ /\ up'.pc = "rows"
               /\ up.i < Len(Rows)
               /\ up'.i = up.i + 1
               /\ Len(up'.outcomes) = up'.i
               /\ SubSeq(up'.outcomes, 1, up.i) = up.outcomes
               /\ up'.input = up.input
            \/ /\ up'.pc = "done"
               /\ up.i = Len(Rows)
               /\ up'.i = up.i
               /\ up'.input = up.input
               /\ ret'.op = "uploadCsv"
               /\ ret'.status = "returned"
          ]_vars
    /\ [](UploadReturned =>
            \/ up.i = 0 /\ up.outcomes = <<>> /\ Len(ret.errors) = 1
                  /\ ~PassesInputChecks(up.input)
            \/ up.i = Len(Rows) /\ Len(up.outcomes) = Len(Rows)
                  /\ PassesInputChecks(up.input))
    /\ (up.pc = "rows") ~> UploadReturned

\* C23 witness: a call has returned after its two rows, of which the store
\* failed on the first and the second was not valid.
C23_Witness ==
    /\ UploadReturned
    /\ Len(Rows) = 2
    /\ up.i = 2
    /\ up.outcomes[1] = "fault"
    /\ up.outcomes[2] \in {"columns", "business", "status"}

\* the cell is a number in its entirety: an optional sign, digits with at
\* most one decimal point among them, one digit at least, nothing else
WellFormedNumber(cell) ==
    LET body == IF cell # <<>> /\ cell[1] \in {"+", "-"} THEN Tail(cell) ELSE cell
    IN  /\ \A k \in 1..Len(body) : body[k] \in Digits \cup {"."}
        /\ \E k \in 1..Len(body) : body[k] \in Digits
        /\ Cardinality({k \in 1..Len(body) : body[k] = "."}) <= 1

\* an iteration on a KPI row of four cells of which a numeric cell is not
\* a number in its entirety
MalformedNumberStep ==
    /\ RowStep
    /\ up.input.type = "kpi"
    /\ ColumnCount(CurrentRow) = 4
    /\ \E j \in 2..4 : ~WellFormedNumber(Values[CurrentRow][j])

\* C24 (as the spec states it): a KPI row with a malformed numeric cell, a
\* number followed by other characters or an empty cell, is skipped with
\* one row error and nothing is written for it. parseFloat reads the
\* digits a cell starts with and ignores the rest: 12abc is stored as 12.
C24_MalformedNumberSkipped ==
    [][MalformedNumberStep =>
        /\ Len(up'.errors) = Len(up.errors) + 1
        /\ up'.errors[Len(up'.errors)].row = up.i + 2
        /\ up'.recordsProcessed = up.recordsProcessed
        /\ store' = store
    ]_vars

\* C25: in a call that passes the input-level checks each data row adds
\* either one to recordsProcessed or one entry to errors, never both and
\* never neither; so recordsProcessed + errors.length is the number of
\* rows handled, and in the result the number of data rows; a row that
\* updates counts as a row that inserts; and success = true implies that
\* recordsProcessed is the number of data rows, which is 1 at least.
C25_EachRowCountedOnce ==
    /\ [][RowStep =>
            \/ /\ up'.recordsProcessed = up.recordsProcessed + 1
               /\ up'.errors = up.errors
            \/ /\ up'.recordsProcessed = up.recordsProcessed
               /\ Len(up'.errors) = Len(up.errors) + 1
               /\ SubSeq(up'.errors, 1, Len(up.errors)) = up.errors
          ]_vars
    /\ [](up.pc = "rows" => up.recordsProcessed + Len(up.errors) = up.i)
    /\ []((UploadReturned /\ PassesInputChecks(up.input)) =>
            /\ ret.recordsProcessed + Len(ret.errors) = Len(Rows)
            /\ ret.recordsProcessed =
                  Cardinality({j \in 1..Len(Rows) :
                                  up.outcomes[j] \in {"inserted", "updated"}})
            /\ ret.success => (ret.recordsProcessed = Len(Rows) /\ ret.recordsProcessed >= 1))

\* C25 witness: a KPI file of two rows for one week has returned success
\* with recordsProcessed = 2 while one record is stored.
C25_Witness ==
    /\ UploadReturned
    /\ up.input = [type |-> "kpi", data |-> <<"KH", "K1", "K2">>]
    /\ ret.success
    /\ ret.recordsProcessed = 2
    /\ Cardinality(kpi_data) = 1

\* the records of table that an iteration replaced by others or removed
Changed(table, tableAfter) == {r \in table : r \notin tableAfter}

\* C26 (as the spec states it): reconciling one valid row changes at most
\* one stored record and no record of another natural key, whatever the
\* handlers have stored before, records of one natural key included; no
\* record is deleted and no id changes; a KPI upload leaves staff_members
\* alone and a staff upload kpi_data. The KPI update is made where
\* week_date = the row's date: it rewrites every record of that week.
C26_RowChangesAtMostOneRecord ==
    [][(KpiReconcileStep \/ StaffReconcileStep) =>
        /\ Cardinality(Changed(kpi_data, kpi_data')) <= 1
        /\ Cardinality(Changed(staff_members, staff_members')) <= 1
        /\ \A r \in kpi_data :
              <<r.week_date>> # RowKey("kpi", CurrentRow) => r \in kpi_data'
        /\ \A r \in staff_members :
              <<r.name, r.department>> # RowKey("staff", CurrentRow)
                 => r \in staff_members'
        /\ {r.id : r \in kpi_data} \subseteq {q.id : q \in kpi_data'}
        /\ {r.id : r \in staff_members} \subseteq {q.id : q \in staff_members'}
        /\ Cardinality(kpi_data') >= Cardinality(kpi_data)
        /\ Cardinality(staff_members') >= Cardinality(staff_members)
        /\ up.input.type = "kpi" => staff_members' = staff_members
        /\ up.input.type = "staff" => kpi_data' = kpi_data
    ]_vars

\* the valid rows of the last call, the natural keys they carry, and the
\* cells of the last valid row that carries a key
ValidRows == {j \in 1..Len(Rows) : RowValid(up.input.type, Rows[j])}
ValidKeys == {RowKey(up.input.type, Rows[j]) : j \in ValidRows}
LastValues(key) ==
    Values[Rows[Greatest({j \in ValidRows : RowKey(up.input.type, Rows[j]) = key})]]

\* no two records of the table share a natural key
UniqueKeys(table, KeyOf(_)) == \A r1, r2 \in table : KeyOf(r1) = KeyOf(r2) => r1 = r2

\* a call has returned that started on a store of unique natural keys and
\* that the store answered every time
ReferenceCase ==
    /\ UploadReturned
    /\ UniqueKeys(up.kpi0, KpiKeyOf)
    /\ UniqueKeys(up.staff0, StaffKeyOf)
    /\ \A j \in 1..Len(up.outcomes) : up.outcomes[j] \notin StoreFailures

\* the table after the call is the reference result: one record for each
\* key of a valid row, with the values of the last valid row of that key
\* and, when the key was stored, the id and created_at it had; the records
\* of the other keys as they were; nothing else
IsReference(before, after, KeyOf(_), hasValues(_, _)) ==
    /\ \A key \in ValidKeys : \E q \in after :
          /\ KeyOf(q) = key
          /\ \A o \in after : KeyOf(o) = key => o = q
          /\ hasValues(q, LastValues(key))
          /\ \A r \in before :
                KeyOf(r) = key => (q.id = r.id /\ q.created_at = r.created_at)
          /\ (\A r \in before : KeyOf(r) # key) => q.id \notin {r.id : r \in before}
    /\ \A r \in before : KeyOf(r) \notin ValidKeys => r \in after
    /\ Cardinality(after) =
          Cardinality(before) + Cardinality(ValidKeys \ {KeyOf(r) : r \in before})

KpiHasValues(q, values) ==
    /\ Keeps(q.efficiency, parseFloat(values[2]))
    /\ Keeps(q.production_rate, parseFloat(values[3]))
    /\ Keeps(q.defects_ppm, parseFloat(values[4]))
StaffHasValues(q, values) == q.position = values[2] /\ q.status = values[4]

AllReturned == \A p \in Procs : jobs[p].pc = "done"

\* C28 (as the spec states it): when uploadCsv calls run at the same time,
\* interleaved at their store calls, and carry valid rows of one natural
\* key that is not stored, the store ends with at most one record for the
\* key. The select of one call and its insert are two store calls: the
\* select of another call between them finds nothing either, and both
\* insert.
C28_OneRecordPerKeyUnderRace ==
    AllReturned =>
        /\ \A r1, r2 \in kpi_data : r1.week_date = r2.week_date => r1.id = r2.id
        /\ \A r1, r2 \in staff_members :
              (r1.name = r2.name /\ r1.department = r2.department) => r1.id = r2.id

\* C29 (as the spec states it): the client shows the success notification
\* only when the result of uploadCsv has success = true. handleCsvUpload
\* awaits the mutate and sets the status to 'success' without looking at
\* the result, so a result with success = false is shown as a success too.
C29_SuccessShownOnlyOnSuccess ==
    [][(client'.uploadStatus = "success" /\ client.uploadStatus # "success") =>
          (ret.op = "uploadCsv" /\ ret.status = "returned" /\ ret.success)]_vars

\* handleCsvUpload runs exactly while isUploading is true, and one run at
\* most
OneRunWhileUploading ==
    /\ client.isUploading <=> client.runs # <<>>
    /\ Len(client.runs) <= 1

\* C30: isUploading is true from the click that starts handleCsvUpload on
\* a chosen file until that run has ended, and false when it has, whether
\* the file could not be read, the call was rejected or answered; the
\* button starts a run only when a file is chosen and no run is under
\* way, so there is never more than one run, and so one upload, at a
\* time; and when a run has ended the button can be used again as soon as
\* a file is chosen.
C30_UploadingWhileInFlight ==
    /\ []OneRunWhileUploading
    /\ [][Len(client'.runs) > Len(client.runs) =>
            /\ client.csvFile # <<>>
            /\ ~client.isUploading
            /\ client.runs = <<>>
            /\ client'.isUploading
            /\ client'.runs = <<[pc |-> "text", type |-> client.csvType,
                                 file |-> client.csvFile]>>
          ]_vars
    /\ [][Len(client'.runs) < Len(client.runs) =>
            /\ ~client'.isUploading
            /\ client'.runs = <<>>
          ]_vars
    /\ []((client.runs = <<>> /\ client.csvFile # <<>> /\ client.clicks < MaxClicks)
            => ENABLED ClickUpload)

\* C30 witness: a second run of handleCsvUpload waits for its answer after the
\* first run has ended, both having called the server.
C30_Witness ==
    /\ client.clicks = 2
    /\ client.isUploading
    /\ Len(client.runs) = 1
    /\ client.runs[1].pc = "mutate"
    /\ calls.uploads = 2

=============================================================================
